---- MODULE Spec2Model ----
(***************************************************************************)
(* State-machine model of three parts of libdivecomputer:                  *)
(*   - src/src/cressi_leonardo.c : open, framed transfer with retries,     *)
(*     read, dump, set_fingerprint and the ring-buffer dive extractor;     *)
(*   - src/src/uwatec_smart.c    : open with its handshake, dump,          *)
(*     set_fingerprint and the marker-based dive extractor;                *)
(*   - src/src/socket.c          : socket open/close and the read/write    *)
(*     loops.                                                              *)
(* Unsigned 32-bit values are written as integers modulo 2^32 in their     *)
(* two's-complement reading (0xFFFFFFFE is -2), so that + and - are the    *)
(* C operations as long as no intermediate leaves [-2^31, 2^31), and the   *)
(* unsigned comparisons are the operators ULt, ULe, UGt, UGe below.        *)
(***************************************************************************)
EXTENDS Integers, Sequences, FiniteSets, TLC

VARIABLES
    \* ---- device session and extractor call (both families) ----
    device,       \* the dc_device_t handed in: "NULL", "cressi" or "uwatec"
    fingerprint,  \* cressi_leonardo_device_t.fingerprint (5 bytes)
    timestamp,    \* uwatec_smart_device_t.timestamp (uint32)
    fp_src,       \* how the fingerprint got its value: "open", "reset", "stored"
    fp_args,      \* arguments of the last set_fingerprint call (or <<>>)
    fp_rc,        \* status returned by the last set_fingerprint call
    fp_old,       \* fingerprint / timestamp before the last set_fingerprint call
    extractor,    \* which extract_dives call is running: "none", "cressi", "uwatec"
    data,         \* the memory image handed to the extractor
    size,         \* its size argument
    callback,     \* TRUE iff the callback argument is not NULL
    pc,           \* position of the extractor
    i,            \* loop index of the cressi loops
    count, latest, maximum,   \* locals of the cressi logbook scan
    previous, remaining,      \* locals of the cressi walk / uwatec search
    current,      \* uwatec: search position
    calls,        \* the consumer invocations so far, in order
    stopped,      \* TRUE once the consumer has returned 0
    status,       \* return value of the extractor ("PENDING" while running)
    image,        \* description of how the image was built (input bookkeeping)
    \* ---- cressi_leonardo_transfer ----
    t_limit,      \* the retry limit the loop compares nretries with
    t_nretries, t_rc, t_pc,
    t_attempts,   \* what the device and the port do on every packet attempt
    t_answer,     \* number of the attempt whose response the answer buffer holds
    t_log,        \* packet calls, sleeps and purges, in order
    t_npackets,   \* number of cressi_leonardo_packet calls so far
    \* ---- socket.c ----
    win32,        \* build flavour: TRUE iff _WIN32 is defined
    wsa_inits,    \* socket-library initialisations that succeeded
    wsa_exits,    \* dc_socket_exit calls
    open_sockets, \* socket descriptors currently allocated
    s_last,       \* last dc_socket_open / dc_socket_close call and its status
    s_ops,        \* number of open/close calls so far
    io_op,        \* "none", "read" or "write": the transfer in progress
    io_size, io_nbytes, io_status, io_pc,
    io_actual,    \* the actual argument: whether a pointer was given, whether
                  \* the call has stored through it, and the value stored
    io_timeout,   \* dc_socket_t.timeout
    io_err,       \* errcode that was turned into io_status (or "none")
    io_moved,     \* bytes the OS really transferred during this call
    io_events,    \* what the primitives reported during this call, in order
    \* ---- protocol engines: device_open, packet, handshake, dump ----
    p_op,         \* the call in progress ("none" when there is none)
    p_pc,         \* its position
    p_status,     \* its return value ("NONE" while it runs)
    p_log,        \* the calls it has made to its collaborators, with results
    p_events,     \* the progress events it has emitted
    p_loc,        \* its local variables
    p_cancelled,  \* the cancelled flag of the device
    p_out         \* what the caller's *out holds

devVars  == <<device, fingerprint, timestamp, fp_src, fp_args, fp_rc, fp_old>>
exVars   == <<extractor, data, size, callback, pc, i, count, latest, maximum,
              previous, remaining, current, calls, stopped, status, image>>
tVars    == <<t_limit, t_nretries, t_rc, t_pc, t_attempts, t_answer, t_log, t_npackets>>
sockVars == <<win32, wsa_inits, wsa_exits, open_sockets, s_last, s_ops>>
ioVars   == <<io_op, io_size, io_nbytes, io_status, io_pc, io_actual, io_timeout,
              io_err, io_moved, io_events>>
pVars    == <<p_op, p_pc, p_status, p_log, p_events, p_loc, p_cancelled, p_out>>
vars     == <<devVars, exVars, tVars, sockVars, ioVars, pVars>>

(***************************************************************************)
(* Status codes (dc_status_t) and small helpers.                           *)
(***************************************************************************)
DC_STATUS_SUCCESS     == "SUCCESS"
DC_STATUS_UNSUPPORTED == "UNSUPPORTED"
DC_STATUS_INVALIDARGS == "INVALIDARGS"
DC_STATUS_NOMEMORY    == "NOMEMORY"
DC_STATUS_NOACCESS    == "NOACCESS"
DC_STATUS_IO          == "IO"
DC_STATUS_TIMEOUT     == "TIMEOUT"
DC_STATUS_PROTOCOL    == "PROTOCOL"
DC_STATUS_DATAFORMAT  == "DATAFORMAT"
DC_STATUS_CANCELLED   == "CANCELLED"

Byte == 0..255

\* unsigned comparison of two uint32 values in two's-complement reading
ULt(a, b) ==
    IF (a >= 0) = (b >= 0) THEN a < b ELSE b < 0
ULe(a, b) == a = b \/ ULt(a, b)
UGt(a, b) == ULt(b, a)
UGe(a, b) == ULe(b, a)

\* array.c: little-endian 16-bit value at d[off], d[off+1]
array_uint16_le(d, off) == d[off] + 256 * d[off + 1]

\* array.c: little-endian 32-bit value of a 4-byte sequence (1-based)
array_uint32_le(b) ==
    b[1] + 256 * b[2] + 65536 * b[3]
      + 16777216 * (IF b[4] >= 128 THEN b[4] - 256 ELSE b[4])

\* array.c: all n bytes from d[off] equal v
array_isequal(d, off, n, v) == \A j \in 0..(n - 1) : d[off + j] = v

\* ringbuffer.c: distance from a to b going forward in [begin, end)
ringbuffer_distance(a, b, mode, begin, end) ==
    IF a < b THEN (b - a) % (end - begin)
    ELSE IF a > b THEN (end - begin) - ((a - b) % (end - begin))
    ELSE IF mode = 0 THEN 0 ELSE end - begin

\* the n bytes d[off] .. d[off+n-1] as a sequence (memcpy source)
Bytes(d, off, n) == [j \in 1..n |-> d[off + j - 1]]

(***************************************************************************)
(* cressi_leonardo.c: memory layout.  The image is scaled down: the slot   *)
(* is cut right after the identifier (offset 8, 5 bytes), the logbook has  *)
(* RB_LOGBOOK_COUNT slots and the profile ring ProfileSize bytes.          *)
(***************************************************************************)
FP_SIZE == 5
RB_LOGBOOK_BEGIN == 1
RB_LOGBOOK_COUNT == 4
ProfileSize == 12
RB_LOGBOOK_SIZE == 8 + FP_SIZE
RB_LOGBOOK_END == RB_LOGBOOK_BEGIN + RB_LOGBOOK_COUNT * RB_LOGBOOK_SIZE
RB_PROFILE_BEGIN == RB_LOGBOOK_END
SZ_MEMORY == RB_PROFILE_BEGIN + ProfileSize
RB_PROFILE_END == SZ_MEMORY
RB_PROFILE_DISTANCE(a, b) ==
    ringbuffer_distance(a, b, 0, RB_PROFILE_BEGIN, RB_PROFILE_END)

(***************************************************************************)
(* Input images.  An image is what a device leaves behind after writing    *)
(* n dives (counters 5, 6, ...) into the profile ring, oldest first, each  *)
(* as  footer-pointer(2) profile(L) header-pointer(2), a newer dive        *)
(* overwriting whatever an older one left; the logbook holds one slot per  *)
(* dive.  On top of that one slot may be damaged (fault).                  *)
(***************************************************************************)
MaxProfileLen == 2

Lo(x) == x % 256
Hi(x) == x \div 256
Circ(x) == IF x >= RB_PROFILE_END THEN x - ProfileSize ELSE x

DiveCounter(d) == 4 + d
DiveId(d) == [j \in 1..FP_SIZE |-> IF j = 1 THEN DiveCounter(d) ELSE 1]
ZeroId == [j \in 1..FP_SIZE |-> 0]
ProfileContent(desc, d) == [j \in 1..desc.L[d] |-> 128 + 16 * d + (j - 1)]

RECURSIVE DivePos(_, _)
DivePos(desc, d) ==
    IF d = 1 THEN desc.s
    ELSE DivePos(desc, d - 1) + 4 + desc.L[d - 1]
DiveHeader(desc, d) == RB_PROFILE_BEGIN + (DivePos(desc, d) % ProfileSize)
DiveFooter(desc, d) == Circ(DiveHeader(desc, d) + 2 + desc.L[d])

\* byte k of dive d's record in the ring
DiveByte(desc, d, k) ==
    IF k = 0 THEN Lo(DiveFooter(desc, d))
    ELSE IF k = 1 THEN Hi(DiveFooter(desc, d))
    ELSE IF k < 2 + desc.L[d] THEN ProfileContent(desc, d)[k - 1]
    ELSE IF k = 2 + desc.L[d] THEN Lo(DiveHeader(desc, d))
    ELSE Hi(DiveHeader(desc, d))

\* the dive stored in physical slot p (0 = none)
SlotDive(desc, p) ==
    IF desc.n < RB_LOGBOOK_COUNT
    THEN (IF p < desc.n THEN p + 1 ELSE 0)
    ELSE desc.n - ((desc.r - p + RB_LOGBOOK_COUNT) % RB_LOGBOOK_COUNT)

BaseSlot(desc, p) ==
    LET d == SlotDive(desc, p) IN
    IF d = 0
    THEN [written |-> FALSE, dive |-> 0, ctr |-> 65535, header |-> 65535,
          footer |-> 65535, id |-> [j \in 1..FP_SIZE |-> 255]]
    ELSE [written |-> TRUE, dive |-> d, ctr |-> DiveCounter(d),
          header |-> DiveHeader(desc, d), footer |-> DiveFooter(desc, d),
          id |-> DiveId(d)]

ErasedSlot == [written |-> FALSE, dive |-> 0, ctr |-> 65535, header |-> 65535,
               footer |-> 65535, id |-> [j \in 1..FP_SIZE |-> 255]]

\* the slot records after the fault
FaultySlot(desc, p) ==
    LET f == desc.fault
        b == BaseSlot(desc, p)
        nxt == (f.k + 1) % RB_LOGBOOK_COUNT
    IN  IF f.kind = "swap_slot" /\ p = f.k THEN BaseSlot(desc, nxt)
        ELSE IF f.kind = "swap_slot" /\ p = nxt THEN BaseSlot(desc, f.k)
        ELSE IF f.kind = "swap_ctr" /\ p = f.k
             THEN [b EXCEPT !.ctr = BaseSlot(desc, nxt).ctr]
        ELSE IF f.kind = "swap_ctr" /\ p = nxt
             THEN [b EXCEPT !.ctr = BaseSlot(desc, f.k).ctr]
        ELSE IF p # f.k THEN b
        ELSE IF f.kind = "erase" THEN ErasedSlot
        ELSE IF f.kind = "ctr_ffff" THEN [b EXCEPT !.ctr = 65535]
        ELSE IF f.kind = "zero_id" THEN [b EXCEPT !.id = ZeroId]
        ELSE IF f.kind = "hdr_low" THEN [b EXCEPT !.header = RB_PROFILE_BEGIN - 1]
        ELSE IF f.kind = "hdr_high" THEN [b EXCEPT !.header = RB_PROFILE_END - 1]
        ELSE IF f.kind = "ftr_low" THEN [b EXCEPT !.footer = RB_PROFILE_BEGIN - 1]
        ELSE IF f.kind = "ftr_high" THEN [b EXCEPT !.footer = RB_PROFILE_END - 1]
        ELSE b

SlotByte(desc, p, j) ==
    LET sl == FaultySlot(desc, p) IN
    IF ~sl.written THEN 255
    ELSE IF j = 0 THEN Lo(sl.ctr) ELSE IF j = 1 THEN Hi(sl.ctr)
    ELSE IF j = 2 THEN Lo(sl.header) ELSE IF j = 3 THEN Hi(sl.header)
    ELSE IF j = 4 THEN Lo(sl.footer) ELSE IF j = 5 THEN Hi(sl.footer)
    ELSE IF j < 8 THEN 0
    ELSE sl.id[j - 7]

\* the dives whose record covers address a of the ring
Covering(desc, a) ==
    {d \in 1..desc.n : \E k \in 0..(3 + desc.L[d]) : Circ(DiveHeader(desc, d) + k) = a}

SetMax(S) == CHOOSE x \in S : \A y \in S : y <= x

ProfileByte(desc, a) ==
    LET c == Covering(desc, a) IN
    IF c = {} THEN 255
    ELSE LET d == SetMax(c)
             k == CHOOSE kk \in 0..(3 + desc.L[d]) : Circ(DiveHeader(desc, d) + kk) = a
             v == DiveByte(desc, d, k)
             f == desc.fault
             fd == SlotDive(desc, f.k)
         IN  IF f.kind = "echo_hdr" /\ d = fd /\ k = 2 + desc.L[d] THEN (v + 1) % 256
             ELSE IF f.kind = "echo_ftr" /\ d = fd /\ k = 0 THEN (v + 1) % 256
             ELSE v

ImageOf(desc) ==
    [a \in 0..(SZ_MEMORY - 1) |->
        IF a < RB_LOGBOOK_BEGIN THEN 0
        ELSE IF a < RB_LOGBOOK_END
             THEN SlotByte(desc, (a - RB_LOGBOOK_BEGIN) \div RB_LOGBOOK_SIZE,
                                 (a - RB_LOGBOOK_BEGIN) % RB_LOGBOOK_SIZE)
        ELSE ProfileByte(desc, a)]

FaultKinds == {"erase", "ctr_ffff", "zero_id", "hdr_low", "hdr_high", "ftr_low",
               "ftr_high", "echo_hdr", "echo_ftr", "swap_slot", "swap_ctr"}
NoFault == [kind |-> "none", k |-> 0]
Faults == {NoFault} \cup [kind : FaultKinds, k : 0..(RB_LOGBOOK_COUNT - 1)]

LenPatterns ==
    {[d \in 1..RB_LOGBOOK_COUNT |-> (d * m) % (MaxProfileLen + 1)] : m \in 0..MaxProfileLen}

\* no 2-byte pointer field of a dive straddles the end of the ring
WellPlaced(desc) ==
    \A d \in 1..desc.n :
        /\ DiveHeader(desc, d) + 2 <= RB_PROFILE_END
        /\ DiveFooter(desc, d) + 2 <= RB_PROFILE_END

\* undamaged images start anywhere in the ring, damaged ones at its begin
ImageDescs ==
    {desc \in [n : 0..RB_LOGBOOK_COUNT, r : 0..(RB_LOGBOOK_COUNT - 1),
               s : 0..(ProfileSize - 1), L : LenPatterns, fault : Faults] :
        /\ (desc.n < RB_LOGBOOK_COUNT => desc.r = 0)
        /\ (desc.fault # NoFault => desc.s \in {0, 3})
        /\ (desc.n = 0 => desc.s = 0 /\ desc.L = [d \in 1..RB_LOGBOOK_COUNT |-> 0])
        /\ WellPlaced(desc)}


(***************************************************************************)
(* set_fingerprint of both families.                                       *)
(***************************************************************************)
\* caller buffers handed to set_fingerprint (always FP_SIZE + 1 bytes long)
FpBuffers ==
    {DiveId(d) \o <<9>> : d \in 1..RB_LOGBOOK_COUNT}
        \cup {ZeroId \o <<9>>, [j \in 1..(FP_SIZE + 1) |-> 255]}
FpSizes == 0..(FP_SIZE + 1)

\* cressi_leonardo_device_set_fingerprint: <<status, new fingerprint>>
cressi_leonardo_device_set_fingerprint_mut(fp, buf, sz) ==
    IF sz # 0 /\ sz > FP_SIZE
    THEN <<DC_STATUS_INVALIDARGS, fp>>
    ELSE IF sz # 0 THEN <<DC_STATUS_SUCCESS, SubSeq(buf, 1, FP_SIZE)>>
    ELSE <<DC_STATUS_SUCCESS, ZeroId>>

cressi_leonardo_device_set_fingerprint(fp, buf, sz) ==
    IF sz # 0 /\ sz # FP_SIZE
    THEN <<DC_STATUS_INVALIDARGS, fp>>
    ELSE IF sz # 0 THEN <<DC_STATUS_SUCCESS, SubSeq(buf, 1, FP_SIZE)>>
    ELSE <<DC_STATUS_SUCCESS, ZeroId>>

\* uwatec_smart_device_set_fingerprint: <<status, new timestamp>>
uwatec_smart_device_set_fingerprint(ts, buf, sz) ==
    IF sz # 0 /\ sz # 4
    THEN <<DC_STATUS_INVALIDARGS, ts>>
    ELSE IF sz # 0 THEN <<DC_STATUS_SUCCESS, array_uint32_le(SubSeq(buf, 1, 4))>>
    ELSE <<DC_STATUS_SUCCESS, 0>>

CressiSetFingerprint ==
    /\ device = "cressi" /\ extractor = "none"
    /\ \E buf \in FpBuffers, sz \in FpSizes :
         LET r == cressi_leonardo_device_set_fingerprint(fingerprint, buf, sz) IN
         /\ fingerprint' = r[2]
         /\ fp_rc' = r[1]
         /\ fp_args' = <<buf, sz>>
         /\ fp_old' = fingerprint
         /\ fp_src' = IF r[1] # DC_STATUS_SUCCESS THEN fp_src
                      ELSE IF sz = 0 THEN "reset" ELSE "stored"
    /\ UNCHANGED <<device, timestamp>>
    /\ UNCHANGED <<exVars, tVars, sockVars, ioVars, pVars>>

UwatecSetFingerprint ==
    /\ device = "uwatec" /\ extractor = "none"
    /\ \E buf \in FpBuffers, sz \in FpSizes :
         LET r == uwatec_smart_device_set_fingerprint(timestamp, buf, sz) IN
         /\ timestamp' = r[2]
         /\ fp_rc' = r[1]
         /\ fp_args' = <<buf, sz>>
         /\ fp_old' = timestamp
         /\ fp_src' = IF r[1] # DC_STATUS_SUCCESS THEN fp_src
                      ELSE IF sz = 0 THEN "reset" ELSE "stored"
    /\ UNCHANGED <<device, fingerprint>>
    /\ UNCHANGED <<exVars, tVars, sockVars, ioVars, pVars>>

(***************************************************************************)
(* cressi_leonardo_extract_dives, one action per loop iteration.           *)
(***************************************************************************)
\* the call arguments tried: every image with a consumer, the undamaged
\* images without one, and a few images handed in one byte short
PlainDescs == {desc \in ImageDescs : desc.fault = NoFault}
CressiInputs ==
    [desc : ImageDescs, cb : {TRUE}, sz : {SZ_MEMORY}]
      \cup [desc : PlainDescs, cb : {FALSE}, sz : {SZ_MEMORY}]
      \cup [desc : {desc \in PlainDescs : desc.s = 0}, cb : {TRUE}, sz : {SZ_MEMORY - 1}]

\* an extractor return: free the scratch buffer (if any) and hand back st
ExReturn(st) ==
    /\ pc' = "done"
    /\ status' = st

CressiExtractStart ==
    /\ extractor = "none"
    /\ \E in \in CressiInputs :
         /\ (device = "uwatec" => in.desc.fault = NoFault /\ in.desc.s = 0)
         /\ extractor' = "cressi"
         /\ image' = in.desc
         /\ data' = ImageOf(in.desc)
         /\ size' = in.sz
         /\ callback' = in.cb
         /\ IF device = "uwatec"                  \* abstract && !ISINSTANCE
            THEN ExReturn(DC_STATUS_INVALIDARGS)
            ELSE IF in.sz < SZ_MEMORY
            THEN ExReturn(DC_STATUS_DATAFORMAT)
            ELSE pc' = "scan" /\ status' = "PENDING"
    /\ i' = 0 /\ count' = 0 /\ latest' = 0 /\ maximum' = 0
    /\ UNCHANGED <<previous, remaining, current, calls, stopped>>
    /\ UNCHANGED <<devVars, tVars, sockVars, ioVars, pVars>>

\* the image of desc with slot p damaged so that its two pointers are equal
\* and the two bytes of the ring they point at hold that same pointer
SelfPointing(desc, p) ==
    LET img == ImageOf(desc)
        offset == RB_LOGBOOK_BEGIN + p * RB_LOGBOOK_SIZE
        header == array_uint16_le(img, offset + 2)
    IN  [a \in 0..(SZ_MEMORY - 1) |->
            IF a = offset + 4 \/ a = header THEN Lo(header)
            ELSE IF a = offset + 5 \/ a = header + 1 THEN Hi(header)
            ELSE img[a]]

\* undamaged images and the written slot that gets the damage
SelfPointingInputs ==
    {in \in [desc : {desc \in PlainDescs : desc.n > 0 /\ desc.s \in {0, 3}},
             p : 0..(RB_LOGBOOK_COUNT - 1), cb : BOOLEAN] :
        SlotDive(in.desc, in.p) # 0}

\* cressi_leonardo_extract_dives called on such an image (lines 440-453)
CressiSelfPointingStart ==
    /\ extractor = "none"
    /\ \E in \in SelfPointingInputs :
         /\ extractor' = "cressi"
         /\ image' = [in.desc EXCEPT !.fault = [kind |-> "self_ptr", k |-> in.p]]
         /\ data' = SelfPointing(in.desc, in.p)
         /\ size' = SZ_MEMORY
         /\ callback' = in.cb
         /\ pc' = "scan" /\ status' = "PENDING"
    /\ i' = 0 /\ count' = 0 /\ latest' = 0 /\ maximum' = 0
    /\ UNCHANGED <<previous, remaining, current, calls, stopped>>
    /\ UNCHANGED <<devVars, tVars, sockVars, ioVars, pVars>>

\* lines 459-467: the scan stops at a never-written slot or a counter 0xFFFF
ScanStops_mut(d, offset) == array_isequal(d, offset, RB_LOGBOOK_SIZE, 255)
ScanStops(d, offset) ==
    \/ array_isequal(d, offset, RB_LOGBOOK_SIZE, 255)
    \/ array_uint16_le(d, offset) = 65535

\* one iteration of the logbook scan (lines 455-474)
CressiScan ==
    /\ extractor = "cressi" /\ pc = "scan" /\ i < RB_LOGBOOK_COUNT
    /\ LET offset == RB_LOGBOOK_BEGIN + i * RB_LOGBOOK_SIZE
           cur == array_uint16_le(data, offset)
           brk == ScanStops(data, offset)
       IN  /\ maximum' = IF ~brk /\ cur > maximum THEN cur ELSE maximum
           /\ latest' = IF ~brk /\ cur > maximum THEN i ELSE latest
           /\ count' = IF brk THEN count ELSE count + 1
           /\ i' = IF brk THEN i ELSE i + 1
           /\ pc' = IF brk \/ i + 1 = RB_LOGBOOK_COUNT THEN "alloc" ELSE "scan"
    /\ UNCHANGED <<extractor, data, size, callback, previous, remaining, current,
                   calls, stopped, status, image>>
    /\ UNCHANGED <<devVars, tVars, sockVars, ioVars, pVars>>

\* malloc of the scratch buffer and the initialisation of the walk (476-484)
CressiAlloc ==
    /\ extractor = "cressi" /\ pc = "alloc"
    /\ \E ok \in BOOLEAN :
         IF ~ok
         THEN /\ ExReturn(DC_STATUS_NOMEMORY)
              /\ UNCHANGED <<previous, remaining, i>>
         ELSE /\ previous' = 0
              /\ remaining' = RB_PROFILE_END - RB_PROFILE_BEGIN
              /\ i' = 0
              /\ IF count = 0
                 THEN ExReturn(DC_STATUS_SUCCESS)
                 ELSE pc' = "walk" /\ UNCHANGED status
    /\ UNCHANGED <<extractor, data, size, callback, count, latest, maximum, current,
                   calls, stopped, image>>
    /\ UNCHANGED <<devVars, tVars, sockVars, ioVars, pVars>>

\* index of the slot the walk reads in iteration k (line 485)
WalkIdx_mut(lat, k) == (lat + k) % RB_LOGBOOK_COUNT
WalkIdx(lat, k) == (lat + RB_LOGBOOK_COUNT - k) % RB_LOGBOOK_COUNT

\* lines 491-492
PointersInvalid_mut(header, footer) ==
    \/ header + 2 > RB_PROFILE_END
    \/ footer < RB_PROFILE_BEGIN \/ footer + 2 > RB_PROFILE_END
PointersInvalid(header, footer) ==
    \/ header < RB_PROFILE_BEGIN \/ header + 2 > RB_PROFILE_END
    \/ footer < RB_PROFILE_BEGIN \/ footer + 2 > RB_PROFILE_END

\* line 506
FingerprintMatches_mut(d, offset, fp) == FALSE
FingerprintMatches_mut2(d, offset, fp) ==
    device # "NULL" /\ Bytes(d, offset + 9, FP_SIZE) = fp
FingerprintMatches(d, offset, fp) ==
    device # "NULL" /\ Bytes(d, offset + 8, FP_SIZE) = fp

\* lines 527-534: the profile bytes copied behind the slot
CopyProfile_mut(d, address, length) ==
    IF UGt(address + length, RB_PROFILE_END)
    THEN LET len_a == RB_PROFILE_END - address
             len_b == length - len_a
         IN  Bytes(d, address, len_a) \o Bytes(d, RB_PROFILE_BEGIN + 1, len_b)
    ELSE Bytes(d, address, length)
CopyProfile(d, address, length) ==
    IF UGt(address + length, RB_PROFILE_END)
    THEN LET len_a == RB_PROFILE_END - address
             len_b == length - len_a
         IN  Bytes(d, address, len_a) \o Bytes(d, RB_PROFILE_BEGIN, len_b)
    ELSE Bytes(d, address, length)

\* line 543: what happens once the consumer has answered
AfterCallback_mut(cont, header) ==
    /\ stopped' = ~cont
    /\ previous' = header
    /\ i' = i + 1
    /\ IF i + 1 >= count
       THEN ExReturn(DC_STATUS_SUCCESS)
       ELSE pc' = "walk" /\ UNCHANGED status
AfterCallback(cont, header) ==
    /\ stopped' = ~cont
    /\ IF ~cont
       THEN ExReturn(DC_STATUS_SUCCESS) /\ UNCHANGED <<previous, i>>
       ELSE /\ previous' = header
            /\ i' = i + 1
            /\ IF i + 1 >= count
               THEN ExReturn(DC_STATUS_SUCCESS)
               ELSE pc' = "walk" /\ UNCHANGED status

\* 'if (previous && previous != footer + 2)': prev is the remembered pointer
Discontinuous_mut(prev, footer) == prev # 0 /\ prev # Circ(footer + 2)
Discontinuous(prev, footer) == prev # 0 /\ prev # footer + 2

\* 'if (remaining && remaining >= length + 4)' (line 515), in unsigned arithmetic
Fits_mut(rem, length) == rem # 0 /\ UGe(rem, length)
Fits(rem, length) == rem # 0 /\ UGe(rem, length + 4)

\* lines 517-519: the profile does not hold the slot's pointer pair
EchoMismatch_mut(d, header, footer) ==
    array_uint16_le(d, footer) # header
EchoMismatch(d, header, footer) ==
    array_uint16_le(d, footer) # header \/ array_uint16_le(d, header) # footer

\* one iteration of the walk (lines 484-548)
CressiWalk ==
    /\ extractor = "cressi" /\ pc = "walk" /\ i < count
    /\ \E cont \in (IF callback THEN BOOLEAN ELSE {TRUE}) :
       LET idx == WalkIdx(latest, i)
           offset == RB_LOGBOOK_BEGIN + idx * RB_LOGBOOK_SIZE
           header == array_uint16_le(data, offset + 2)
           footer == array_uint16_le(data, offset + 4)
           address == header + 2
           length == RB_PROFILE_DISTANCE(header, footer) - 2
           fits == Fits(remaining, length)
           len == IF fits THEN length ELSE 0
           rec == Bytes(data, offset, RB_LOGBOOK_SIZE)
                    \o (IF fits THEN CopyProfile(data, address, length) ELSE <<>>)
       IN  IF PointersInvalid(header, footer)
           THEN /\ ExReturn(DC_STATUS_DATAFORMAT)
                /\ UNCHANGED <<previous, remaining, i, calls, stopped>>
           ELSE IF Discontinuous(previous, footer)
           THEN /\ ExReturn(DC_STATUS_DATAFORMAT)
                /\ UNCHANGED <<previous, remaining, i, calls, stopped>>
           ELSE IF FingerprintMatches(data, offset, fingerprint)
           THEN /\ ExReturn(DC_STATUS_SUCCESS)
                /\ UNCHANGED <<previous, remaining, i, calls, stopped>>
           ELSE IF fits /\ EchoMismatch(data, header, footer)
           THEN /\ ExReturn(DC_STATUS_DATAFORMAT)
                /\ UNCHANGED <<previous, remaining, i, calls, stopped>>
           ELSE IF fits /\ length < 0
           THEN \* memcpy of a length that wrapped below zero: undefined behaviour
                /\ \E st \in {"CRASH", DC_STATUS_SUCCESS, DC_STATUS_DATAFORMAT} :
                      ExReturn(st)
                /\ UNCHANGED <<previous, remaining, i, calls, stopped>>
           ELSE /\ remaining' = IF fits THEN remaining - (length + 4) ELSE 0
                /\ calls' = IF callback
                            THEN Append(calls, [idx |-> idx, off |-> offset,
                                                len |-> RB_LOGBOOK_SIZE + len,
                                                rec |-> rec,
                                                fp |-> SubSeq(rec, 9, 8 + FP_SIZE)])
                            ELSE calls
                /\ AfterCallback(cont, header)
    /\ UNCHANGED <<extractor, data, size, callback, count, latest, maximum, current, image>>
    /\ UNCHANGED <<devVars, tVars, sockVars, ioVars, pVars>>

(***************************************************************************)
(* uwatec_smart_extract_dives.  Input buffers: lead garbage bytes, then n  *)
(* dive records (marker, 4-byte length, 4-byte timestamp, payload), oldest *)
(* first, with the last `cut` bytes missing and possibly one damaged       *)
(* length field.                                                           *)
(***************************************************************************)
UMaxDives == 2
UMaxPayload == 1
UMaxCut == 7
UHeader == <<165, 165, 90, 90>>      \* 0xa5 0xa5 0x5a 0x5a
GarbageBytes == {0, 255}

LE4(v) == <<v % 256, (v \div 256) % 256, (v \div 65536) % 256, (v \div 16777216) % 256>>

UNoFault == [kind |-> "none", k |-> 0]
UFaults == {UNoFault} \cup [kind : {"len_big", "len_wrap"}, k : 1..UMaxDives]

URecord(desc, d) ==
    LET good == 12 + desc.pay
        lenbytes == IF desc.fault.k = d /\ desc.fault.kind = "len_big" THEN LE4(good + 1)
                    ELSE IF desc.fault.k = d /\ desc.fault.kind = "len_wrap"
                         THEN <<252, 255, 255, 255>>
                    ELSE LE4(good)
    IN  UHeader \o lenbytes \o <<d, 0, 0, 0>> \o [j \in 1..desc.pay |-> 200 + d]

RECURSIVE URecords(_, _)
URecords(desc, d) ==
    IF d > desc.n THEN <<>> ELSE URecord(desc, d) \o URecords(desc, d + 1)

UFull(desc) == [j \in 1..desc.lead |-> 7] \o URecords(desc, 1)
UBytes(desc) == SubSeq(UFull(desc), 1, Len(UFull(desc)) - desc.cut)
\* 0-based view of a byte sequence
ZeroBased(b) == [a \in 0..(Len(b) - 1) |-> b[a + 1]]

UDescs ==
    {desc \in [n : 0..UMaxDives, pay : 0..UMaxPayload, lead : 0..1, cut : 0..UMaxCut,
               fault : UFaults] :
        /\ desc.fault.k <= desc.n
        /\ desc.cut <= Len(UFull(desc))
        /\ (desc.n = 0 => desc.pay = 0)}

UwatecExtractStart ==
    /\ extractor = "none"
    /\ \E desc \in UDescs, cb \in BOOLEAN :
         LET b == UBytes(desc)
             sz == Len(b)
             cur == IF sz >= 4 THEN sz - 4 ELSE 0
         IN
         /\ (device = "cressi" \/ ~cb => desc.fault = UNoFault /\ desc.cut = 0)
         /\ extractor' = "uwatec"
         /\ image' = desc
         /\ data' = ZeroBased(b)
         /\ size' = sz
         /\ callback' = cb
         /\ previous' = sz
         /\ current' = cur
         /\ IF device = "cressi"                  \* abstract && !ISINSTANCE
            THEN ExReturn(DC_STATUS_INVALIDARGS)
            ELSE IF cur > 0
            THEN pc' = "search" /\ status' = "PENDING"
            ELSE ExReturn(DC_STATUS_SUCCESS)
    /\ UNCHANGED <<i, count, latest, maximum, remaining, calls, stopped>>
    /\ UNCHANGED <<devVars, tVars, sockVars, ioVars, pVars>>

\* line 436
UOverflow(cur, len, prev) == UGt(cur + len, prev)

\* lines 439-444: what happens once the consumer has answered
UAfterCallback(cont, cur) ==
    /\ stopped' = ~cont
    /\ IF ~cont
       THEN ExReturn(DC_STATUS_SUCCESS) /\ previous' = previous /\ current' = cur
       ELSE /\ previous' = cur
            /\ current' = (IF cur >= 4 THEN cur - 4 ELSE 0)
            /\ IF current' > 0
               THEN pc' = "search" /\ UNCHANGED status
               ELSE ExReturn(DC_STATUS_SUCCESS)

\* one iteration of the marker search (lines 429-446)
UwatecSearch ==
    /\ extractor = "uwatec" /\ pc = "search" /\ current > 0
    /\ LET cur == current - 1
           found == Bytes(data, cur, 4) = UHeader
           inside == cur + 8 <= size
       IN
       \E cont \in (IF callback /\ found THEN BOOLEAN ELSE {TRUE}),
          g \in (IF found /\ ~inside THEN [1..4 -> GarbageBytes] ELSE {<<0, 0, 0, 0>>}) :
         LET lenbytes == [j \in 1..4 |->
                            IF cur + 3 + j < size THEN data[cur + 3 + j] ELSE g[j]]
             len == array_uint32_le(lenbytes)
         IN  IF ~found
             THEN /\ current' = cur
                  /\ IF cur > 0
                     THEN pc' = "search" /\ UNCHANGED status
                     ELSE ExReturn(DC_STATUS_SUCCESS)
                  /\ UNCHANGED <<previous, calls, stopped>>
             ELSE IF UOverflow(cur, len, previous)
             THEN /\ ExReturn(DC_STATUS_DATAFORMAT)
                  /\ current' = cur
                  /\ UNCHANGED <<previous, calls, stopped>>
             ELSE /\ calls' = IF callback
                              THEN Append(calls, [off |-> cur, len |-> len,
                                                  inside |-> inside])
                              ELSE calls
                  /\ UAfterCallback(cont, cur)
    /\ UNCHANGED <<extractor, data, size, callback, i, count, latest, maximum,
                   remaining, image>>
    /\ UNCHANGED <<devVars, tVars, sockVars, ioVars, pVars>>

(***************************************************************************)
(* cressi_leonardo_packet and cressi_leonardo_transfer.                    *)
(* One packet attempt is decided by what its environment does: whether the *)
(* device was cancelled, the status of the serial write and read, the      *)
(* first and last byte of the answer, and the checksum the answer carries  *)
(* (crc) against the one computed over its payload (ccrc).                 *)
(***************************************************************************)
MAXRETRIES == 4

PacketOk      == [cancelled |-> FALSE, write |-> DC_STATUS_SUCCESS,
                  read |-> DC_STATUS_SUCCESS, first |-> "{", last |-> "}",
                  crc |-> 1, ccrc |-> 1]
PacketBadCrc  == [PacketOk EXCEPT !.crc = 0]
PacketBadHead == [PacketOk EXCEPT !.first = "?"]
PacketTimeout == [PacketOk EXCEPT !.read = DC_STATUS_TIMEOUT]
PacketIoError == [PacketOk EXCEPT !.write = DC_STATUS_IO]
PacketCancel  == [PacketOk EXCEPT !.cancelled = TRUE]
PacketBehaviours ==
    {PacketOk, PacketBadCrc, PacketBadHead, PacketTimeout, PacketIoError, PacketCancel}

cressi_leonardo_packet(b) ==
    IF b.cancelled THEN DC_STATUS_CANCELLED
    ELSE IF b.write # DC_STATUS_SUCCESS THEN b.write
    ELSE IF b.read # DC_STATUS_SUCCESS THEN b.read
    ELSE IF b.first # "{" \/ b.last # "}" THEN DC_STATUS_PROTOCOL
    ELSE IF b.crc # b.ccrc THEN DC_STATUS_PROTOCOL
    ELSE DC_STATUS_SUCCESS

\* the statuses after which the loop asks for the packet again: the negation
\* of 'if (rc != DC_STATUS_PROTOCOL && rc != DC_STATUS_TIMEOUT) return rc;'
Retryable_mut(rc) == rc # DC_STATUS_CANCELLED
Retryable(rc) == rc = DC_STATUS_PROTOCOL \/ rc = DC_STATUS_TIMEOUT

\* the test of 'if (nretries++ >= MAXRETRIES)', on the value before the increment
RetriesExhausted_mut(nretries, limit) == nretries + 1 >= limit
RetriesExhausted(nretries, limit) == nretries >= limit

\* one iteration of the while loop of cressi_leonardo_transfer: a packet
\* attempt and what the loop body does with its status
TransferPacket ==
    /\ t_pc = "loop"
    /\ LET b == t_attempts[t_npackets + 1]
           rc == cressi_leonardo_packet(b)
       IN  /\ t_npackets' = t_npackets + 1
           /\ t_rc' = rc
           /\ t_answer' = IF ~b.cancelled /\ b.write = DC_STATUS_SUCCESS
                             /\ b.read = DC_STATUS_SUCCESS
                          THEN t_npackets + 1 ELSE t_answer
           /\ IF rc = DC_STATUS_SUCCESS
              THEN /\ t_pc' = "done"
                   /\ t_log' = Append(t_log, "packet")
                   /\ UNCHANGED t_nretries
              ELSE IF ~Retryable(rc)
              THEN /\ t_pc' = "done"
                   /\ t_log' = Append(t_log, "packet")
                   /\ UNCHANGED t_nretries
              ELSE IF RetriesExhausted(t_nretries, t_limit)
              THEN /\ t_pc' = "done"
                   /\ t_log' = Append(t_log, "packet")
                   /\ t_nretries' = t_nretries + 1
              ELSE /\ t_pc' = "loop"
                   /\ t_log' = t_log \o <<"packet", "sleep", "purge">>
                   /\ t_nretries' = t_nretries + 1
    /\ UNCHANGED <<t_limit, t_attempts>>
    /\ UNCHANGED <<devVars, exVars, sockVars, ioVars, pVars>>

(***************************************************************************)
(* socket.c: library initialisation, open and close.                       *)
(***************************************************************************)
MaxSocketOps == 3

Errcodes == {"EINTR", "EAGAIN", "EINVAL", "ENOMEM", "EACCES", "EAFNOSUPPORT",
             "ECONNRESET"}

dc_socket_syserror(errcode) ==
    CASE errcode = "EINVAL" -> DC_STATUS_INVALIDARGS
      [] errcode = "ENOMEM" -> DC_STATUS_NOMEMORY
      [] errcode = "EACCES" -> DC_STATUS_NOACCESS
      [] errcode = "EAFNOSUPPORT" -> DC_STATUS_UNSUPPORTED
      [] OTHER -> DC_STATUS_IO

\* dc_status_set_error: an error already recorded is kept
dc_status_set_error(st, error) ==
    IF st = DC_STATUS_SUCCESS THEN error ELSE st

\* dc_socket_init.  startup is the return value of WSAStartup and version the
\* <<low, high>> bytes of wsaData.wVersion; without _WIN32 there is nothing to
\* start.  'started' tells whether the library was initialised by the call.
dc_socket_init(w32, startup, version) ==
    IF ~w32 THEN [status |-> DC_STATUS_SUCCESS, started |-> TRUE]
    ELSE IF startup # 0 THEN [status |-> DC_STATUS_UNSUPPORTED, started |-> FALSE]
    ELSE IF version[1] # 2 \/ version[2] # 2
         THEN [status |-> DC_STATUS_UNSUPPORTED, started |-> TRUE]
    ELSE [status |-> DC_STATUS_SUCCESS, started |-> TRUE]

\* dc_socket_exit.  cleanup is "ok" or the errcode of a failed WSACleanup.
dc_socket_exit(w32, cleanup) ==
    IF w32 /\ cleanup # "ok" THEN dc_socket_syserror(cleanup) ELSE DC_STATUS_SUCCESS

WsaVersions == {<<2, 2>>, <<1, 1>>, <<2, 0>>}
SocketErrcodes == Errcodes \ {"EINTR", "EAGAIN"}

\* dc_socket_open: init, socket(), and dc_socket_exit on the error path
dc_socket_open ==
    /\ s_ops < MaxSocketOps
    /\ \E startup \in (IF win32 THEN {0, 10091} ELSE {0}),
          version \in (IF win32 THEN WsaVersions ELSE {<<2, 2>>}),
          fd \in {"ok"} \cup SocketErrcodes :
         LET init == dc_socket_init(win32, startup, version)
         IN  /\ wsa_inits' = wsa_inits + (IF init.started THEN 1 ELSE 0)
             /\ IF init.status # DC_STATUS_SUCCESS
                THEN /\ s_last' = [op |-> "open", status |-> init.status,
                                   steps |-> <<"init">>]
                     /\ UNCHANGED <<wsa_exits, open_sockets>>
                ELSE IF fd # "ok"
                THEN /\ s_last' = [op |-> "open", status |-> dc_socket_syserror(fd),
                                   steps |-> <<"init", "socket", "exit">>]
                     /\ wsa_exits' = wsa_exits + 1
                     /\ UNCHANGED open_sockets
                ELSE /\ s_last' = [op |-> "open", status |-> DC_STATUS_SUCCESS,
                                   steps |-> <<"init", "socket">>]
                     /\ open_sockets' = open_sockets + 1
                     /\ UNCHANGED wsa_exits
    /\ s_ops' = s_ops + 1
    /\ UNCHANGED win32
    /\ UNCHANGED <<devVars, exVars, tVars, ioVars, pVars>>

\* The body of dc_socket_close: the teardown steps it performs, in order, and
\* its result.  shut, closed and cleanup are what shutdown, S_CLOSE and
\* WSACleanup report ("ok" or an errcode); the result of shutdown is not read.
CloseTeardown_mut(w32, shut, closed, cleanup) ==
    IF closed # "ok"
    THEN [status |-> dc_socket_syserror(closed), steps |-> <<"shutdown", "close">>,
          exit_rc |-> DC_STATUS_SUCCESS]
    ELSE [status |-> dc_socket_exit(w32, cleanup),
          steps |-> <<"shutdown", "close", "exit">>,
          exit_rc |-> dc_socket_exit(w32, cleanup)]
CloseTeardown(w32, shut, closed, cleanup) ==
    LET status1 == IF closed # "ok"
                   THEN dc_status_set_error(DC_STATUS_SUCCESS,
                                            dc_socket_syserror(closed))
                   ELSE DC_STATUS_SUCCESS
        rc == dc_socket_exit(w32, cleanup)
        status2 == IF rc # DC_STATUS_SUCCESS
                   THEN dc_status_set_error(status1, rc) ELSE status1
    IN  [status |-> status2, steps |-> <<"shutdown", "close", "exit">>,
         exit_rc |-> rc]

\* dc_socket_close: shutdown, close and dc_socket_exit, whatever each returns.
\* The descriptor is gone after S_CLOSE even when S_CLOSE reports an error.
dc_socket_close ==
    /\ s_ops < MaxSocketOps
    /\ open_sockets > 0
    /\ \E shut \in {"ok", "ECONNRESET"},
          closed \in {"ok"} \cup SocketErrcodes,
          cleanup \in (IF win32 THEN {"ok", "ENOMEM", "ECONNRESET"} ELSE {"ok"}) :
         LET r == CloseTeardown(win32, shut, closed, cleanup)
         IN  s_last' = [op |-> "close", status |-> r.status, steps |-> r.steps,
                        shut |-> shut, closed |-> closed, cleanup |-> cleanup,
                        exit_rc |-> r.exit_rc]
    /\ open_sockets' = open_sockets - 1
    /\ wsa_exits' = wsa_exits + 1
    /\ s_ops' = s_ops + 1
    /\ UNCHANGED <<win32, wsa_inits>>
    /\ UNCHANGED <<devVars, exVars, tVars, ioVars, pVars>>

(***************************************************************************)
(* socket.c: dc_socket_set_timeout and the dc_socket_read /                *)
(* dc_socket_write loops, one action per system call of the loop.  The     *)
(* retries on EINTR / EAGAIN have no bound in the code; the model offers   *)
(* them MaxIoRetries times per call.                                       *)
(***************************************************************************)
MaxIoSize == 3
MaxIoRetries == 2
\* the longest time, in ticks of one millisecond, that the model lets a
\* readiness wait without deadline last
LongWait == 4000

Timeouts == {-1, 0, 1500}

\* the actual argument before a call
NoActual == [given |-> FALSE, set |-> FALSE, value |-> 0]
\* 'if (actual) *actual = nbytes;'
StoreActual(act, nbytes) ==
    IF act.given THEN [act EXCEPT !.set = TRUE, !.value = nbytes] ELSE act
\* what a system call of the loops reported: kind is "ready" or "expired"
\* (select), "bytes" (recv / send returned n >= 0) or "error" (errcode)
\* ticks is the time the call was blocked
IoEvent(call, kind, errcode, n, retried, ticks) ==
    [call |-> call, kind |-> kind, errcode |-> errcode, n |-> n,
     retried |-> retried, ticks |-> ticks]

\* the deadline, in ticks of one millisecond, that the select call of the
\* loop is given: the timeval made from socket->timeout by dc_socket_read,
\* none (-1) when the timeout is negative and in dc_socket_write
SelectDeadline(op, timeout) ==
    IF op = "read" /\ timeout >= 0
    THEN LET tv_sec  == IF timeout > 0 THEN timeout \div 1000 ELSE 0
             tv_usec == IF timeout > 0 THEN (timeout % 1000) * 1000 ELSE 0
         IN  tv_sec * 1000 + tv_usec \div 1000
    ELSE -1
\* the times after which a select call with this deadline can report r:
\* "expired" at the deadline, anything else before it
WaitTicks(deadline, r) ==
    IF deadline < 0 THEN {0, LongWait}
    ELSE IF r = "expired" THEN {deadline}
    ELSE IF deadline > 0 THEN {0, deadline - 1}
    ELSE {0}

\* 'if (errcode == S_EINTR) continue;' after select
SelectRetried(errcode) == errcode = "EINTR"
\* 'if (errcode == S_EINTR || errcode == S_EAGAIN) continue;' after recv / send
TransferRetried_mut(errcode) == errcode = "EINTR"
TransferRetried(errcode) == errcode = "EINTR" \/ errcode = "EAGAIN"

IoRetries == Cardinality({k \in DOMAIN io_events : io_events[k].retried})

\* leaving the loop by 'break' or by its condition: the status check and 'out:'
IoLeaveLoop(nbytes) ==
    /\ io_status' = IF nbytes # io_size THEN DC_STATUS_TIMEOUT ELSE DC_STATUS_SUCCESS
    /\ io_actual' = StoreActual(io_actual, nbytes)
    /\ io_pc' = "done"
    /\ UNCHANGED io_err
\* 'goto out' with a status made from errcode
IoFail(errcode) ==
    /\ io_status' = dc_socket_syserror(errcode)
    /\ io_actual' = StoreActual(io_actual, io_nbytes)
    /\ io_pc' = "done"
    /\ io_err' = errcode

dc_socket_set_timeout ==
    /\ io_pc = "idle"
    /\ \E t \in Timeouts : io_timeout' = t
    /\ UNCHANGED <<io_op, io_size, io_nbytes, io_status, io_pc, io_actual,
                   io_err, io_moved, io_events>>
    /\ UNCHANGED <<devVars, exVars, tVars, sockVars, pVars>>

\* entry of dc_socket_read / dc_socket_write up to the first loop test
SocketIoStart ==
    /\ io_pc = "idle"
    /\ \E op \in {"read", "write"}, sz \in 0..MaxIoSize, given \in BOOLEAN :
         LET act == [NoActual EXCEPT !.given = given]
         IN  /\ io_op' = op /\ io_size' = sz
             /\ io_nbytes' = 0 /\ io_moved' = 0 /\ io_events' = <<>>
             /\ io_err' = "none"
             /\ IF 0 < sz
                THEN /\ io_pc' = "select" /\ io_status' = DC_STATUS_SUCCESS
                     /\ io_actual' = act
                ELSE /\ io_pc' = "done" /\ io_status' = DC_STATUS_SUCCESS
                     /\ io_actual' = StoreActual(act, 0)
    /\ UNCHANGED io_timeout
    /\ UNCHANGED <<devVars, exVars, tVars, sockVars, pVars>>

\* the select call of one iteration.  It can report 0 (nothing ready) only
\* when it was given a deadline.  A traced step records the call in io_events,
\* and the environment of a traced run makes at most MaxIoRetries calls fail
\* with a retried error; an untraced step leaves io_events alone and the
\* environment is free.
SocketSelectStep(traced) ==
    /\ io_pc = "select"
    /\ \E r \in {"ready", "expired"} \cup Errcodes :
       \E ticks \in WaitTicks(SelectDeadline(io_op, io_timeout), r) :
         /\ r = "expired" => SelectDeadline(io_op, io_timeout) >= 0
         /\ (traced /\ r \in Errcodes /\ SelectRetried(r)) => IoRetries < MaxIoRetries
         /\ io_events' = IF traced
                          THEN Append(io_events,
                                 IoEvent("select", IF r \in Errcodes THEN "error" ELSE r,
                                         IF r \in Errcodes THEN r ELSE "none", 0,
                                         r \in Errcodes /\ SelectRetried(r), ticks))
                          ELSE io_events
         /\ IF r \in Errcodes
            THEN IF SelectRetried(r)
                 THEN UNCHANGED <<io_status, io_pc, io_actual, io_err>>
                 ELSE IoFail(r)
            ELSE IF r = "expired"
                 THEN IoLeaveLoop(io_nbytes)
                 ELSE io_pc' = "xfer" /\ UNCHANGED <<io_status, io_actual, io_err>>
    /\ UNCHANGED <<io_op, io_size, io_nbytes, io_timeout, io_moved>>
    /\ UNCHANGED <<devVars, exVars, tVars, sockVars, pVars>>

SocketSelect == SocketSelectStep(TRUE)

\* the recv / send call of one iteration, the update of nbytes and the loop
\* test; traced as for select
SocketTransferStep(traced) ==
    /\ io_pc = "xfer"
    /\ \E r \in {"none"} \cup Errcodes, m \in 0..(io_size - io_nbytes) :
         LET call == IF io_op = "read" THEN "recv" ELSE "send"
             retry == r \in Errcodes /\ TransferRetried(r)
             n == IF r \in Errcodes THEN 0 ELSE m
         IN  /\ r \in Errcodes => m = 0
             /\ (traced /\ retry) => IoRetries < MaxIoRetries
             /\ io_events' = IF traced
                              THEN Append(io_events,
                                     IoEvent(call,
                                             IF r \in Errcodes THEN "error" ELSE "bytes",
                                             r, n, retry, 0))
                              ELSE io_events
             /\ io_nbytes' = io_nbytes + n
             /\ io_moved' = io_moved + n
             /\ IF r \in Errcodes
                THEN IF retry
                     THEN io_pc' = "select" /\ UNCHANGED <<io_status, io_actual, io_err>>
                     ELSE IoFail(r)
                ELSE IF n = 0
                     THEN IoLeaveLoop(io_nbytes)
                     ELSE IF io_nbytes + n < io_size
                          THEN io_pc' = "select"
                               /\ UNCHANGED <<io_status, io_actual, io_err>>
                          ELSE IoLeaveLoop(io_nbytes + n)
    /\ UNCHANGED <<io_op, io_size, io_timeout>>
    /\ UNCHANGED <<devVars, exVars, tVars, sockVars, pVars>>

SocketTransfer == SocketTransferStep(TRUE)

\* the same two steps of the loops with a free environment
SocketSelectFree == SocketSelectStep(FALSE)
SocketTransferFree == SocketTransferStep(FALSE)

(***************************************************************************)
(* cressi_leonardo_device_open and cressi_leonardo_device_close.  Every    *)
(* call to a collaborator is logged with the status it returned.           *)
(***************************************************************************)
\* the statuses a serial-port call can fail with
PortErrors == {DC_STATUS_IO, DC_STATUS_NOACCESS, DC_STATUS_UNSUPPORTED,
               DC_STATUS_TIMEOUT, DC_STATUS_NOMEMORY, DC_STATUS_INVALIDARGS}
\* the results of the calls whose status the code does not read
Unread == {DC_STATUS_SUCCESS, DC_STATUS_IO}
PCall(call, rc) == [call |-> call, rc |-> rc]

\* the setup steps of cressi_leonardo_device_open whose status is tested
SetupSteps == <<"dc_serial_open", "dc_serial_configure", "dc_serial_set_timeout",
                "dc_serial_set_rts", "dc_serial_set_dtr(1)", "dc_serial_set_dtr(0)">>

\* the return of a call with the status st
PReturn(st) == p_status' = st /\ p_pc' = "done"

\* the labels a failed setup step jumps to: error_free after dc_serial_open,
\* error_close after every later step
OpenCleanup_mut(step) ==
    <<PCall("dc_serial_close", DC_STATUS_SUCCESS),
      PCall("dc_device_deallocate", DC_STATUS_SUCCESS)>>
OpenCleanup(step) ==
    IF step = 1
    THEN <<PCall("dc_device_deallocate", DC_STATUS_SUCCESS)>>
    ELSE <<PCall("dc_serial_close", DC_STATUS_SUCCESS),
           PCall("dc_device_deallocate", DC_STATUS_SUCCESS)>>

\* entry: the test of out and the allocation of the device
OpenEntry ==
    /\ p_op = "none" /\ p_pc = "idle"
    /\ \E out_null \in BOOLEAN, allocated \in BOOLEAN :
         /\ p_op' = "open"
         /\ p_loc' = [step |-> 1, out_null |-> out_null]
         /\ IF out_null
            THEN /\ p_status' = DC_STATUS_INVALIDARGS /\ p_pc' = "done"
                 /\ UNCHANGED p_log
            ELSE IF ~allocated
            THEN /\ p_status' = DC_STATUS_NOMEMORY /\ p_pc' = "done"
                 /\ p_log' = Append(p_log, PCall("dc_device_allocate", DC_STATUS_NOMEMORY))
            ELSE /\ p_pc' = "setup" /\ UNCHANGED p_status
                 /\ p_log' = Append(p_log, PCall("dc_device_allocate", DC_STATUS_SUCCESS))
    /\ UNCHANGED <<p_events, p_cancelled, p_out>>
    /\ UNCHANGED <<devVars, exVars, tVars, sockVars, ioVars>>

\* one setup step and what follows it: the cleanup and return when it failed,
\* the next step, or (after the last) the sleep, the purge and the store to
\* *out.  The results of the sleeps and of the purge are not read.
OpenSetup ==
    /\ p_op = "open" /\ p_pc = "setup"
    /\ \E rc \in {DC_STATUS_SUCCESS} \cup PortErrors, slept \in Unread, purged \in Unread :
         LET step == p_loc.step
             pre == IF step = 6
                    THEN <<PCall("dc_serial_sleep(200)", slept)>> ELSE <<>>
             made == p_log \o pre \o <<PCall(SetupSteps[step], rc)>>
         IN  IF rc # DC_STATUS_SUCCESS
             THEN /\ p_log' = made \o OpenCleanup(step)
                  /\ p_status' = rc /\ p_pc' = "done"
                  /\ UNCHANGED <<p_out, p_loc>>
             ELSE IF step < Len(SetupSteps)
             THEN /\ p_log' = made
                  /\ p_loc' = [p_loc EXCEPT !.step = step + 1]
                  /\ UNCHANGED <<p_out, p_status, p_pc>>
             ELSE /\ p_log' = made \o <<PCall("dc_serial_sleep(100)", DC_STATUS_SUCCESS),
                                        PCall("dc_serial_purge", purged)>>
                  /\ p_out' = "device"
                  /\ p_status' = DC_STATUS_SUCCESS /\ p_pc' = "opened"
                  /\ UNCHANGED p_loc
    /\ UNCHANGED <<p_op, p_events, p_cancelled>>
    /\ UNCHANGED <<devVars, exVars, tVars, sockVars, ioVars>>

\* cressi_leonardo_device_close on the device a successful open returned
cressi_leonardo_device_close ==
    /\ p_op = "open" /\ p_pc = "opened"
    /\ \E rc \in {DC_STATUS_SUCCESS} \cup PortErrors :
         /\ p_log' = Append(p_log, PCall("dc_serial_close", rc))
         /\ p_status' = (IF rc # DC_STATUS_SUCCESS
                         THEN dc_status_set_error(DC_STATUS_SUCCESS, rc)
                         ELSE DC_STATUS_SUCCESS)
         /\ p_op' = "close" /\ p_pc' = "done"
    /\ UNCHANGED <<p_events, p_loc, p_cancelled, p_out>>
    /\ UNCHANGED <<devVars, exVars, tVars, sockVars, ioVars>>

(***************************************************************************)
(* Frames of the cressi protocol: cressi_leonardo_make_ascii and the       *)
(* verification in cressi_leonardo_packet, on bytes.  Characters are their *)
(* ASCII codes.  The checksum and the hex conversions are helpers of the   *)
(* library: CRC-16/CCITT with initial value 0xFFFF; bin2hex writing upper  *)
(* case; hex2bin stopping at the first character it does not accept, and   *)
(* leaving the output from that byte on as it was.  Whether hex2bin        *)
(* accepts lower-case letters is an input (lenient).                       *)
(***************************************************************************)
MaxPayloadLen == 2
PayloadBytes == {0, 74, 159, 255}
Payloads == UNION {[1..n -> PayloadBytes] : n \in 0..MaxPayloadLen}

RECURSIVE Xor(_, _)
Xor(a, b) ==
    IF a = 0 THEN b ELSE IF b = 0 THEN a
    ELSE ((a + b) % 2) + 2 * Xor(a \div 2, b \div 2)

RECURSIVE CrcShift(_, _)
\* n steps of the shift register, polynomial 0x1021
CrcShift(crc, n) ==
    IF n = 0 THEN crc
    ELSE CrcShift(IF crc >= 32768 THEN Xor((crc * 2) % 65536, 4129) ELSE crc * 2, n - 1)

RECURSIVE CrcFrom(_, _, _)
\* the register is never negative: the test has it computed byte by byte
CrcFrom(crc, bytes, k) ==
    IF crc < 0 \/ k > Len(bytes) THEN crc
    ELSE CrcFrom(CrcShift(Xor(crc, bytes[k] * 256), 8), bytes, k + 1)
checksum_crc_ccitt_uint16(bytes) == CrcFrom(65535, bytes, 1)

HexDigit(v) == IF v < 10 THEN 48 + v ELSE 55 + v
array_convert_bin2hex(raw) ==
    [j \in 1..(2 * Len(raw)) |->
        IF j % 2 = 1 THEN HexDigit(raw[(j + 1) \div 2] \div 16)
        ELSE HexDigit(raw[j \div 2] % 16)]

\* the value of a hex character, -1 when it is not accepted
HexValue(ch, lenient) ==
    IF ch >= 48 /\ ch <= 57 THEN ch - 48
    ELSE IF ch >= 65 /\ ch <= 70 THEN ch - 55
    ELSE IF lenient /\ ch >= 97 /\ ch <= 102 THEN ch - 87
    ELSE -1
\* input: 2n characters; output: the n bytes of the destination before the
\* call.  rc is 0, or -1 when a character was not accepted.
array_convert_hex2bin(input, output, lenient) ==
    LET n == Len(output)
        bad == {k \in 1..n : \/ HexValue(input[2 * k - 1], lenient) < 0
                             \/ HexValue(input[2 * k], lenient) < 0}
        stop == IF bad = {} THEN n + 1 ELSE CHOOSE k \in bad : \A o \in bad : k <= o
    IN  [rc |-> IF bad = {} THEN 0 ELSE -1,
         out |-> [k \in 1..n |->
                    IF k < stop
                    THEN 16 * HexValue(input[2 * k - 1], lenient)
                           + HexValue(input[2 * k], lenient)
                    ELSE output[k]]]
array_uint16_be(b) == b[1] * 256 + b[2]

\* cressi_leonardo_make_ascii: the frame of the raw bytes
cressi_leonardo_make_ascii_mut(raw) ==
    LET crc == checksum_crc_ccitt_uint16(raw)
    IN  <<123>> \o array_convert_bin2hex(raw)
              \o array_convert_bin2hex(<<(crc \div 256) % 256, crc % 256>>) \o <<125>>
cressi_leonardo_make_ascii(raw) ==
    LET ascii == array_convert_bin2hex(raw)
        crc == checksum_crc_ccitt_uint16(ascii)
        checksum == <<(crc \div 256) % 256, crc % 256>>
    IN  <<123>> \o ascii \o array_convert_bin2hex(checksum) \o <<125>>

\* what lines 118-131 of cressi_leonardo_packet make of an answer of asize
\* bytes that was written and read without error: the markers, the checksum
\* field converted into checksum[2] = {0} (the result of the conversion is
\* not read) and the checksum of the characters between '{' and the field
PacketOf(answer, lenient) ==
    LET asize == Len(answer)
        checksum == array_convert_hex2bin(SubSeq(answer, asize - 4, asize - 1),
                                          <<0, 0>>, lenient).out
    IN  [cancelled |-> FALSE, write |-> DC_STATUS_SUCCESS, read |-> DC_STATUS_SUCCESS,
         first |-> IF answer[1] = 123 THEN "{" ELSE "?",
         last |-> IF answer[asize] = 125 THEN "}" ELSE "?",
         crc |-> array_uint16_be(checksum),
         ccrc |-> checksum_crc_ccitt_uint16(SubSeq(answer, 2, asize - 5))]

\* bit `bit` of the character ch inverted
FlipBit(ch, bit) ==
    IF (ch \div (2 ^ bit)) % 2 = 1 THEN ch - 2 ^ bit ELSE ch + 2 ^ bit

\* the device builds the frame of its payload
FrameBuild ==
    /\ p_op = "frame" /\ p_pc = "build"
    /\ p_loc' = [p_loc EXCEPT !.frame = cressi_leonardo_make_ascii(p_loc.payload),
                              !.answer = cressi_leonardo_make_ascii(p_loc.payload)]
    /\ p_pc' = "line"
    /\ UNCHANGED <<p_op, p_status, p_log, p_events, p_cancelled, p_out>>
    /\ UNCHANGED <<devVars, exVars, tVars, sockVars, ioVars>>

\* the line delivers the frame, intact (pos = 0) or with one bit of the
\* character at pos inverted
FrameLine ==
    /\ p_op = "frame" /\ p_pc = "line"
    /\ \E pos \in 0..Len(p_loc.frame), bit \in 0..7 :
         /\ pos = 0 => bit = 0
         /\ p_loc' = [p_loc EXCEPT
                          !.pos = pos, !.bit = bit,
                          !.answer = IF pos = 0 THEN p_loc.frame
                                     ELSE [p_loc.frame EXCEPT
                                              ![pos] = FlipBit(p_loc.frame[pos], bit)]]
    /\ p_pc' = "verify"
    /\ UNCHANGED <<p_op, p_status, p_log, p_events, p_cancelled, p_out>>
    /\ UNCHANGED <<devVars, exVars, tVars, sockVars, ioVars>>

\* cressi_leonardo_packet on the answer read
FrameVerify ==
    /\ p_op = "frame" /\ p_pc = "verify"
    /\ PReturn(cressi_leonardo_packet(PacketOf(p_loc.answer, p_loc.lenient)))
    /\ UNCHANGED <<p_op, p_log, p_events, p_loc, p_cancelled, p_out>>
    /\ UNCHANGED <<devVars, exVars, tVars, sockVars, ioVars>>

(***************************************************************************)
(* The protocol engines at work: cressi_leonardo_packet,                   *)
(* cressi_leonardo_device_dump, uwatec_smart_handshake and                 *)
(* uwatec_smart_device_dump, one call at a time.  p_log holds the tests of *)
(* the cancelled flag and the transport calls in order, together with a    *)
(* mark where the application set the flag; p_events holds the progress    *)
(* events.  The device and the port answer every call as they like.        *)
(***************************************************************************)
\* smallest chunk the cressi dump asks for (1024 in a memory of 32000 bytes)
MinPacket == 24
\* smallest chunk the uwatec dump asks for
UMinPacket == 32
\* chunks the device delivers at most during one uwatec dump
UMaxChunks == 3

IoResults == {DC_STATUS_SUCCESS, DC_STATUS_IO, DC_STATUS_TIMEOUT}
\* the lengths the uwatec device reports (uint32; -16 is 0xFFFFFFF0)
ULengths == {0, 1, 40, 70, -16, -5, -4}
\* byte counts dc_serial_get_available / dc_iostream_get_available report
Availables == {0, 30, 40}

\* dc_event_progress_t as initialised: current 0, maximum UINT_MAX
EVENT_PROGRESS_INITIALIZER == [current |-> 0, maximum |-> -1]

EngineLocals == [nbytes |-> 0, current |-> 0, maximum |-> 0, length |-> 0,
                 total |-> 0, stage |-> 0, chunks |-> 0]

\* device_event_emit (DC_EVENT_PROGRESS) with the locals loc
EmitProgress(loc) ==
    p_events' = Append(p_events, [current |-> loc.current, maximum |-> loc.maximum])

\* the length of the next chunk of a dump: the minimum, or what is available
\* when that is more, cut to what is left of the total
ChunkLen_mut(min, av_rc, available, nbytes, total) ==
    IF av_rc = DC_STATUS_SUCCESS /\ available > min THEN available ELSE min
ChunkLen(min, av_rc, available, nbytes, total) ==
    LET len == IF av_rc = DC_STATUS_SUCCESS /\ available > min THEN available ELSE min
    IN  IF UGt(nbytes + len, total) THEN total - nbytes ELSE len

\* a write of the csize bytes of a command starting with the byte cmd, and a
\* read of len bytes, as they are logged
PWrite(rc, cmd, csize) == [call |-> "write", rc |-> rc, cmd |-> cmd, csize |-> csize]
PRead(rc, len) == [call |-> "read", rc |-> rc, len |-> len]

\* uwatec_smart_transfer: write the command, read the answer; wr and rd are
\* what the stream returns
uwatec_smart_transfer(cmd, csize, asize, wr, rd) ==
    IF wr # DC_STATUS_SUCCESS
    THEN [calls |-> <<PWrite(wr, cmd, csize)>>, rc |-> wr]
    ELSE [calls |-> <<PWrite(wr, cmd, csize), PRead(rd, asize)>>, rc |-> rd]

\* one stage of uwatec_smart_handshake: the transfer and the test of the
\* answer byte (lines 123-131, 134-142); ex is what the stream and the device do
HandshakeStage_mut(cmd, csize, ex) ==
    LET t == uwatec_smart_transfer(cmd, csize, 1, ex.wr, ex.rd)
    IN  [calls |-> t.calls, rc |-> t.rc]
HandshakeStage(cmd, csize, ex) ==
    LET t == uwatec_smart_transfer(cmd, csize, 1, ex.wr, ex.rd)
    IN  [calls |-> t.calls,
         rc |-> IF t.rc # DC_STATUS_SUCCESS THEN t.rc
                ELSE IF ex.answer # 1 THEN DC_STATUS_PROTOCOL
                ELSE DC_STATUS_SUCCESS]
\* what the stream and the device do during one exchange
Exchanges == [wr : IoResults, rd : IoResults, answer : {0, 1, 2}]

\* the application calls one of the engine operations
EngineStart ==
    /\ p_op = "none" /\ p_pc = "idle"
    /\ p_op' \in {"packet", "cressi_dump", "handshake", "uwatec_dump"}
    /\ p_pc' = "entry"
    /\ UNCHANGED <<p_status, p_log, p_events, p_loc, p_cancelled, p_out>>
    /\ UNCHANGED <<devVars, exVars, tVars, sockVars, ioVars>>

\* the application sets the cancelled flag, at any moment
Cancel ==
    /\ ~p_cancelled /\ p_pc # "done"
    /\ p_cancelled' = TRUE
    /\ p_log' = Append(p_log, PCall("cancel", DC_STATUS_SUCCESS))
    /\ UNCHANGED <<p_op, p_pc, p_status, p_events, p_loc, p_out>>
    /\ UNCHANGED <<devVars, exVars, tVars, sockVars, ioVars>>

\* cressi_leonardo_packet, lines 101-102: the test of the cancelled flag
PacketEntry ==
    /\ p_op = "packet" /\ p_pc = "entry"
    /\ p_log' = Append(p_log, PCall("device_is_cancelled",
                                    IF p_cancelled THEN DC_STATUS_CANCELLED
                                    ELSE DC_STATUS_SUCCESS))
    /\ IF p_cancelled
       THEN PReturn(cressi_leonardo_packet(PacketCancel))
       ELSE p_pc' = "exchange" /\ UNCHANGED p_status
    /\ UNCHANGED <<p_op, p_events, p_loc, p_cancelled, p_out>>
    /\ UNCHANGED <<devVars, exVars, tVars, sockVars, ioVars>>

\* cressi_leonardo_packet, lines 104-136: the command, the answer and its
\* verification
PacketExchange ==
    /\ p_op = "packet" /\ p_pc = "exchange"
    /\ \E b \in PacketBehaviours \ {PacketCancel} :
         /\ p_log' = p_log \o (IF b.write # DC_STATUS_SUCCESS
                               THEN <<PCall("write", b.write)>>
                               ELSE <<PCall("write", b.write), PCall("read", b.read)>>)
         /\ PReturn(cressi_leonardo_packet(b))
    /\ UNCHANGED <<p_op, p_events, p_loc, p_cancelled, p_out>>
    /\ UNCHANGED <<devVars, exVars, tVars, sockVars, ioVars>>

\* cressi_leonardo_device_dump, lines 319-329: the buffer and the first event
CressiDumpStart ==
    /\ p_op = "cressi_dump" /\ p_pc = "entry"
    /\ \E resized \in BOOLEAN :
         IF ~resized
         THEN /\ p_log' = Append(p_log, PCall("dc_buffer_resize", DC_STATUS_NOMEMORY))
              /\ PReturn(DC_STATUS_NOMEMORY)
              /\ UNCHANGED <<p_events, p_loc>>
         ELSE LET loc == [EngineLocals EXCEPT
                              !.current = EVENT_PROGRESS_INITIALIZER.current,
                              !.maximum = SZ_MEMORY]
              IN  /\ p_log' = Append(p_log, PCall("dc_buffer_resize", DC_STATUS_SUCCESS))
                  /\ p_loc' = loc
                  /\ EmitProgress(loc)
                  /\ p_pc' = "command" /\ UNCHANGED p_status
    /\ UNCHANGED <<p_op, p_cancelled, p_out>>
    /\ UNCHANGED <<devVars, exVars, tVars, sockVars, ioVars>>

\* lines 331-337: the dump command
CressiDumpCommand ==
    /\ p_op = "cressi_dump" /\ p_pc = "command"
    /\ \E rc \in IoResults :
         /\ p_log' = Append(p_log, PWrite(rc, 123, 8))
         /\ IF rc # DC_STATUS_SUCCESS
            THEN PReturn(rc)
            ELSE p_pc' = "header" /\ UNCHANGED p_status
    /\ UNCHANGED <<p_op, p_events, p_loc, p_cancelled, p_out>>
    /\ UNCHANGED <<devVars, exVars, tVars, sockVars, ioVars>>

\* lines 339-352: the header packet and its comparison with the expected one
CressiDumpHeader ==
    /\ p_op = "cressi_dump" /\ p_pc = "header"
    /\ \E rc \in IoResults, expected \in BOOLEAN :
         /\ p_log' = Append(p_log, [call |-> "read", rc |-> rc, len |-> 7,
                                    expected |-> expected])
         /\ IF rc # DC_STATUS_SUCCESS
            THEN PReturn(rc)
            ELSE IF ~expected
            THEN PReturn(DC_STATUS_PROTOCOL)
            ELSE p_pc' = "chunk" /\ UNCHANGED p_status
    /\ UNCHANGED <<p_op, p_events, p_loc, p_cancelled, p_out>>
    /\ UNCHANGED <<devVars, exVars, tVars, sockVars, ioVars>>

\* lines 356-383: one iteration of the loop reading the memory
CressiDumpChunk ==
    /\ p_op = "cressi_dump" /\ p_pc = "chunk"
    /\ \E av_rc \in {DC_STATUS_SUCCESS, DC_STATUS_UNSUPPORTED},
          available \in Availables, rc \in IoResults :
         LET len == ChunkLen(MinPacket, av_rc, available, p_loc.nbytes, SZ_MEMORY)
             loc == [p_loc EXCEPT !.current = p_loc.current + len,
                                  !.nbytes = p_loc.nbytes + len,
                                  !.chunks = p_loc.chunks + 1]
         IN  /\ p_log' = p_log \o <<[call |-> "get_available", rc |-> av_rc,
                                       available |-> available], PRead(rc, len)>>
             /\ IF rc # DC_STATUS_SUCCESS
                THEN PReturn(rc) /\ UNCHANGED <<p_events, p_loc>>
                ELSE /\ p_loc' = loc
                     /\ EmitProgress(loc)
                     /\ p_pc' = (IF loc.nbytes < SZ_MEMORY THEN "chunk" ELSE "trailer")
                     /\ UNCHANGED p_status
    /\ UNCHANGED <<p_op, p_cancelled, p_out>>
    /\ UNCHANGED <<devVars, exVars, tVars, sockVars, ioVars>>

\* the checksums of the images received and the trailers sent with them
ImageCrcs == {35328, 2174}         \* 0x8A00, 0x087E
Trailers == {<<56, 65, 48, 48>>, <<48, 56, 55, 69>>, <<56, 65, 32, 48>>}
\* lines 393-398: the trailer converted into checksum[2] = {0}
TrailerCrc(trailer) ==
    array_uint16_be(array_convert_hex2bin(trailer, <<0, 0>>, FALSE).out)

\* lines 385-405: the trailer packet and the checksum of the memory
CressiDumpTrailer ==
    /\ p_op = "cressi_dump" /\ p_pc = "trailer"
    /\ \E rc \in IoResults, trailer \in Trailers, csum2 \in ImageCrcs :
         /\ p_log' = Append(p_log, [call |-> "read", rc |-> rc, len |-> 4,
                                    trailer |-> trailer, csum2 |-> csum2])
         /\ PReturn(IF rc # DC_STATUS_SUCCESS THEN rc
                    ELSE IF TrailerCrc(trailer) # csum2 THEN DC_STATUS_PROTOCOL
                    ELSE DC_STATUS_SUCCESS)
    /\ UNCHANGED <<p_op, p_events, p_loc, p_cancelled, p_out>>
    /\ UNCHANGED <<devVars, exVars, tVars, sockVars, ioVars>>

\* uwatec_smart_handshake: stage 1, then stage 2, each a transfer whose
\* answer must be 0x01
UwatecHandshake ==
    /\ p_op = "handshake" /\ p_pc \in {"entry", "stage2"}
    /\ \E ex \in Exchanges :
         LET t == IF p_pc = "entry" THEN HandshakeStage(27, 1, ex)
                  ELSE HandshakeStage(28, 5, ex)
         IN  /\ p_log' = p_log \o t.calls
             /\ IF t.rc # DC_STATUS_SUCCESS
                THEN PReturn(t.rc)
                ELSE IF p_pc = "entry"
                THEN p_pc' = "stage2" /\ UNCHANGED p_status
                ELSE PReturn(DC_STATUS_SUCCESS)
    /\ UNCHANGED <<p_op, p_events, p_loc, p_cancelled, p_out>>
    /\ UNCHANGED <<devVars, exVars, tVars, sockVars, ioVars>>

\* uwatec_smart_device_dump, lines 265-267: the first progress event
UwatecDumpStart ==
    /\ p_op = "uwatec_dump" /\ p_pc = "entry"
    /\ LET loc == [EngineLocals EXCEPT
                       !.current = EVENT_PROGRESS_INITIALIZER.current,
                       !.maximum = EVENT_PROGRESS_INITIALIZER.maximum]
       IN  p_loc' = loc /\ EmitProgress(loc)
    /\ p_pc' = "identify"
    /\ UNCHANGED <<p_op, p_status, p_log, p_cancelled, p_out>>
    /\ UNCHANGED <<devVars, exVars, tVars, sockVars, ioVars>>

\* lines 269-296: the model number, the serial number and the device clock
\* (stage 0, 1, 2), and after the third the progress event
UwatecDumpIdentify ==
    /\ p_op = "uwatec_dump" /\ p_pc = "identify"
    /\ \E wr \in IoResults, rd \in IoResults :
         LET t == IF p_loc.stage = 0 THEN uwatec_smart_transfer(16, 1, 1, wr, rd)
                  ELSE IF p_loc.stage = 1 THEN uwatec_smart_transfer(20, 1, 4, wr, rd)
                  ELSE uwatec_smart_transfer(26, 1, 4, wr, rd)
             loc == [p_loc EXCEPT !.current = p_loc.current + 9, !.stage = 3]
         IN  /\ p_log' = p_log \o t.calls
             /\ IF t.rc # DC_STATUS_SUCCESS
                THEN PReturn(t.rc) /\ UNCHANGED <<p_events, p_loc>>
                ELSE IF p_loc.stage < 2
                THEN /\ p_loc' = [p_loc EXCEPT !.stage = p_loc.stage + 1]
                     /\ UNCHANGED <<p_events, p_status, p_pc>>
                ELSE /\ p_loc' = loc
                     /\ EmitProgress(loc)
                     /\ p_pc' = "length" /\ UNCHANGED p_status
    /\ UNCHANGED <<p_op, p_cancelled, p_out>>
    /\ UNCHANGED <<devVars, exVars, tVars, sockVars, ioVars>>

\* lines 322-342: the Data Length command, the progress event made from the
\* length, the return when it is 0 and the resize of the buffer.  The sum
\* 4 + 9 + (length + 4) is a sum of unsigned int.
UwatecDumpLength ==
    /\ p_op = "uwatec_dump" /\ p_pc = "length"
    /\ \E wr \in IoResults, rd \in IoResults, length \in ULengths, resized \in BOOLEAN :
         LET t == uwatec_smart_transfer(198, 9, 4, wr, rd)
             loc == [p_loc EXCEPT
                        !.length = length,
                        !.maximum = 4 + 9 + (IF length # 0 THEN length + 4 ELSE 0),
                        !.current = p_loc.current + 4]
         IN  /\ p_log' = p_log \o t.calls
                          \o (IF t.rc = DC_STATUS_SUCCESS /\ length # 0
                              THEN <<PCall("dc_buffer_resize",
                                           IF resized THEN DC_STATUS_SUCCESS
                                           ELSE DC_STATUS_NOMEMORY)>>
                              ELSE <<>>)
             /\ IF t.rc # DC_STATUS_SUCCESS
                THEN PReturn(t.rc) /\ UNCHANGED <<p_events, p_loc>>
                ELSE /\ p_loc' = loc
                     /\ EmitProgress(loc)
                     /\ IF length = 0 THEN PReturn(DC_STATUS_SUCCESS)
                        ELSE IF ~resized THEN PReturn(DC_STATUS_NOMEMORY)
                        ELSE p_pc' = "data" /\ UNCHANGED p_status
    /\ UNCHANGED <<p_op, p_cancelled, p_out>>
    /\ UNCHANGED <<devVars, exVars, tVars, sockVars, ioVars>>

\* lines 346-361: the Data command, its progress event and the test of total
UwatecDumpData ==
    /\ p_op = "uwatec_dump" /\ p_pc = "data"
    /\ \E wr \in IoResults, rd \in IoResults,
          total \in {p_loc.length + 4, p_loc.length} :
         LET t == uwatec_smart_transfer(196, 9, 4, wr, rd)
             loc == [p_loc EXCEPT !.current = p_loc.current + 4, !.total = total]
         IN  /\ p_log' = p_log \o t.calls
             /\ IF t.rc # DC_STATUS_SUCCESS
                THEN PReturn(t.rc) /\ UNCHANGED <<p_events, p_loc>>
                ELSE /\ p_loc' = loc
                     /\ EmitProgress(loc)
                     /\ IF total # p_loc.length + 4 THEN PReturn(DC_STATUS_PROTOCOL)
                        ELSE p_pc' = "chunk" /\ UNCHANGED p_status
    /\ UNCHANGED <<p_op, p_cancelled, p_out>>
    /\ UNCHANGED <<devVars, exVars, tVars, sockVars, ioVars>>

\* lines 363-390: one iteration of the loop reading the data.  The device
\* delivers at most UMaxChunks chunks: a later read fails.
UwatecDumpChunk ==
    /\ p_op = "uwatec_dump" /\ p_pc = "chunk"
    /\ \E av_rc \in {DC_STATUS_SUCCESS, DC_STATUS_UNSUPPORTED},
          available \in Availables, rc \in IoResults :
         LET len == ChunkLen(UMinPacket, av_rc, available, p_loc.nbytes, p_loc.length)
             loc == [p_loc EXCEPT !.current = p_loc.current + len,
                                  !.nbytes = p_loc.nbytes + len,
                                  !.chunks = p_loc.chunks + 1]
         IN  /\ (rc = DC_STATUS_SUCCESS => p_loc.chunks < UMaxChunks)
             /\ p_log' = p_log \o <<[call |-> "get_available", rc |-> av_rc,
                                       available |-> available], PRead(rc, len)>>
             /\ IF rc # DC_STATUS_SUCCESS
                THEN PReturn(rc) /\ UNCHANGED <<p_events, p_loc>>
                ELSE /\ p_loc' = loc
                     /\ EmitProgress(loc)
                     /\ IF ULt(loc.nbytes, loc.length)
                        THEN UNCHANGED <<p_pc, p_status>>
                        ELSE PReturn(DC_STATUS_SUCCESS)
    /\ UNCHANGED <<p_op, p_cancelled, p_out>>
    /\ UNCHANGED <<devVars, exVars, tVars, sockVars, ioVars>>

\* the value of nbytes after the iterations of that loop that read a whole
\* minimum packet without reaching the cut: the largest multiple of the
\* packet size below length
LastWholePacket(length) == ((length - 1) \div UMinPacket) * UMinPacket

\* lines 363-390, a run of iterations taken as one step: for a length of
\* 2^31 or more, all the iterations from nbytes = 0 in which nothing beyond
\* the minimum was available and the read succeeded, up to the last one
\* that is not cut.  The log and the events get one entry for the run.
UwatecDumpRun ==
    /\ p_op = "uwatec_dump" /\ p_pc = "chunk"
    /\ p_loc.nbytes = 0 /\ p_loc.chunks = 0 /\ p_loc.length < 0
    /\ LET upto == LastWholePacket(p_loc.length)
           loc == [p_loc EXCEPT !.current = p_loc.current + upto,
                                !.nbytes = upto]
       IN  /\ p_log' = Append(p_log, [call |-> "reads", rc |-> DC_STATUS_SUCCESS,
                                      len |-> UMinPacket, upto |-> upto])
           /\ p_loc' = loc
           /\ EmitProgress(loc)
    /\ UNCHANGED <<p_op, p_pc, p_status, p_cancelled, p_out>>
    /\ UNCHANGED <<devVars, exVars, tVars, sockVars, ioVars>>

(***************************************************************************)
(* uwatec_smart_device_open (lines 149-229).  p_log holds the calls that   *)
(* acquire and release resources and the handshake calls; the IrDA device  *)
(* descriptors the iterator hands out are numbered 1, 2, ...               *)
(***************************************************************************)
DC_STATUS_NODEVICE == "NODEVICE"
DC_STATUS_DONE == "DONE"
\* devices the enumeration hands out at most before the one that matches
MaxIrdaDevices == 2
\* a call on the descriptor number id
PDev(call, id) == [call |-> call, rc |-> DC_STATUS_SUCCESS, id |-> id]

\* the labels of lines 216-224, from the one jumped to down to the return:
\* 4 error_close, 3 error_device_free, 2 error_iterator_free, 1 error_free
UwatecOpenCleanup(label, dev) ==
    (IF label >= 4 THEN <<PCall("dc_iostream_close", DC_STATUS_SUCCESS)>> ELSE <<>>)
      \o (IF label >= 3 THEN <<PDev("dc_irda_device_free", dev)>> ELSE <<>>)
      \o (IF label >= 2 THEN <<PCall("dc_iterator_free", DC_STATUS_SUCCESS)>> ELSE <<>>)
      \o <<PCall("dc_device_deallocate", DC_STATUS_SUCCESS)>>

\* lines 157-177: the test of out, the allocation and the iterator
UwatecOpenEntry ==
    /\ p_op = "none" /\ p_pc = "idle"
    /\ p_op' = "uwatec_open"
    /\ \E out_null \in BOOLEAN, allocated \in BOOLEAN,
          rc \in {DC_STATUS_SUCCESS, DC_STATUS_NOMEMORY, DC_STATUS_IO} :
         /\ p_loc' = [p_loc EXCEPT !.out_null = out_null]
         /\ IF out_null
            THEN PReturn(DC_STATUS_INVALIDARGS) /\ UNCHANGED p_log
            ELSE IF ~allocated
            THEN /\ PReturn(DC_STATUS_NOMEMORY)
                 /\ p_log' = Append(p_log, PCall("dc_device_allocate", DC_STATUS_NOMEMORY))
            ELSE LET made == p_log \o <<PCall("dc_device_allocate", DC_STATUS_SUCCESS),
                                        PCall("dc_irda_iterator_new", rc)>>
                 IN  IF rc # DC_STATUS_SUCCESS
                     THEN PReturn(rc) /\ p_log' = made \o UwatecOpenCleanup(1, 0)
                     ELSE /\ p_pc' = "enumerate" /\ UNCHANGED p_status
                          /\ p_log' = made
    /\ UNCHANGED <<p_events, p_cancelled, p_out>>
    /\ UNCHANGED <<devVars, exVars, tVars, sockVars, ioVars>>

\* lines 180-200: one iteration of the enumeration
UwatecOpenEnumerate ==
    /\ p_op = "uwatec_open" /\ p_pc = "enumerate"
    /\ \E rc \in {DC_STATUS_SUCCESS, DC_STATUS_DONE, DC_STATUS_IO}, matches \in BOOLEAN :
         LET id == p_loc.found + 1
             next == [call |-> "dc_iterator_next", rc |-> rc,
                      id |-> IF rc = DC_STATUS_SUCCESS THEN id ELSE 0]
         IN  /\ (rc = DC_STATUS_SUCCESS /\ ~matches => p_loc.found < MaxIrdaDevices)
             /\ IF rc # DC_STATUS_SUCCESS
                THEN /\ PReturn(IF rc = DC_STATUS_DONE THEN DC_STATUS_NODEVICE ELSE rc)
                     /\ p_log' = Append(p_log, next) \o UwatecOpenCleanup(2, 0)
                     /\ UNCHANGED p_loc
                ELSE IF matches
                THEN /\ p_loc' = [p_loc EXCEPT !.found = id, !.dev = id]
                     /\ p_log' = Append(p_log, next)
                     /\ p_pc' = "socket" /\ UNCHANGED p_status
                ELSE /\ p_loc' = [p_loc EXCEPT !.found = id]
                     /\ p_log' = p_log \o <<next, PDev("dc_irda_device_free", id)>>
                     /\ UNCHANGED <<p_pc, p_status>>
    /\ UNCHANGED <<p_op, p_events, p_cancelled, p_out>>
    /\ UNCHANGED <<devVars, exVars, tVars, sockVars, ioVars>>

\* lines 203-207: the IrDA socket
UwatecOpenSocket ==
    /\ p_op = "uwatec_open" /\ p_pc = "socket"
    /\ \E rc \in {DC_STATUS_SUCCESS, DC_STATUS_IO, DC_STATUS_NOACCESS} :
         IF rc # DC_STATUS_SUCCESS
         THEN /\ PReturn(rc)
              /\ p_log' = Append(p_log, PCall("dc_irda_open", rc))
                             \o UwatecOpenCleanup(3, p_loc.dev)
         ELSE /\ p_log' = Append(p_log, PCall("dc_irda_open", rc))
              /\ p_pc' = "stage1" /\ UNCHANGED p_status
    /\ UNCHANGED <<p_op, p_events, p_loc, p_cancelled, p_out>>
    /\ UNCHANGED <<devVars, exVars, tVars, sockVars, ioVars>>

\* lines 210-218: uwatec_smart_handshake, one stage at a time, the store to
\* *out when it succeeded and the jump to error_close when it failed
UwatecOpenHandshake ==
    /\ p_op = "uwatec_open" /\ p_pc \in {"stage1", "stage2"}
    /\ \E ex \in Exchanges :
         LET t == IF p_pc = "stage1" THEN HandshakeStage(27, 1, ex)
                  ELSE HandshakeStage(28, 5, ex)
         IN  /\ p_loc' = [p_loc EXCEPT !.hs = Append(p_loc.hs, ex)]
             /\ IF t.rc # DC_STATUS_SUCCESS
                THEN /\ PReturn(t.rc)
                     /\ p_log' = p_log \o t.calls \o UwatecOpenCleanup(4, p_loc.dev)
                     /\ UNCHANGED p_out
                ELSE IF p_pc = "stage1"
                THEN /\ p_pc' = "stage2" /\ p_log' = p_log \o t.calls
                     /\ UNCHANGED <<p_status, p_out>>
                ELSE /\ PReturn(DC_STATUS_SUCCESS)
                     /\ p_log' = p_log \o t.calls
                     /\ p_out' = "device"
    /\ UNCHANGED <<p_op, p_events, p_cancelled>>
    /\ UNCHANGED <<devVars, exVars, tVars, sockVars, ioVars>>

(***************************************************************************)
(* cressi_leonardo_device_read (lines 272-311), one action per iteration   *)
(* of its loop.  The device answers a request with the bytes of its memory *)
(* at the address the request frame carries; cressi_leonardo_transfer      *)
(* returns what it likes.  p_log holds the requests in order.              *)
(***************************************************************************)
PACKETSIZE == 32
\* the arguments tried: addresses at both ends of the 16-bit range
ReadAddresses == {0, 40, 65500, 65535, 65536}
ReadSizes == {0, 1, 32, 33, 70}
TransferResults == {DC_STATUS_SUCCESS, DC_STATUS_IO, DC_STATUS_TIMEOUT,
                    DC_STATUS_PROTOCOL, DC_STATUS_CANCELLED}
\* content of the caller's buffer before the call
StaleByte == 170
\* content of the device memory at address a (memory of 2^16 addresses)
DeviceByte(a) == (a % 65536) % 251

\* lines 285-293: the raw command and its frame
ReadCommand_mut(address, len) ==
    cressi_leonardo_make_ascii(<<(address \div 256) % 256, address % 256,
                                 (PACKETSIZE \div 256) % 256, PACKETSIZE % 256>>)
ReadCommand(address, len) ==
    cressi_leonardo_make_ascii(<<(address \div 256) % 256, address % 256,
                                 (len \div 256) % 256, len % 256>>)

\* the part of the answer the read looks at: '{' and the hex characters of
\* the memory bytes the command asks for
ReadAnswer(command) ==
    LET raw == array_convert_hex2bin(SubSeq(command, 2, 9), <<0, 0, 0, 0>>, FALSE).out
        a == raw[1] * 256 + raw[2]
        l == raw[3] * 256 + raw[4]
    IN  <<123>> \o array_convert_bin2hex([j \in 1..l |-> DeviceByte(a + j - 1)])

ReadStart ==
    /\ p_op = "none" /\ p_pc = "idle"
    /\ \E address \in ReadAddresses, sz \in ReadSizes :
         p_loc' = [address0 |-> address, size |-> sz, address |-> address,
                   nbytes |-> 0, data |-> [k \in 1..sz |-> StaleByte]]
    /\ p_op' = "read" /\ p_pc' = "loop"
    /\ UNCHANGED <<p_status, p_log, p_events, p_cancelled, p_out>>
    /\ UNCHANGED <<devVars, exVars, tVars, sockVars, ioVars>>

\* one test of 'nbytes < size' and, when it holds, one iteration
ReadLoop ==
    /\ p_op = "read" /\ p_pc = "loop"
    /\ IF p_loc.nbytes >= p_loc.size
       THEN PReturn(DC_STATUS_SUCCESS) /\ UNCHANGED <<p_log, p_loc>>
       ELSE \E rc \in TransferResults :
            LET rest == p_loc.size - p_loc.nbytes
                len == IF rest > PACKETSIZE THEN PACKETSIZE ELSE rest
                command == ReadCommand(p_loc.address, len)
                answer == ReadAnswer(command)
                dst == SubSeq(p_loc.data, p_loc.nbytes + 1, p_loc.nbytes + len)
                raw == array_convert_hex2bin(SubSeq(answer, 2, 2 * len + 1), dst, FALSE).out
            IN  /\ p_log' = Append(p_log, [call |-> "transfer", rc |-> rc,
                                           command |-> command, address |-> p_loc.address,
                                           len |-> len, asize |-> 2 * (len + 3)])
                /\ IF rc # DC_STATUS_SUCCESS
                   THEN PReturn(rc) /\ UNCHANGED p_loc
                   ELSE /\ p_loc' = [p_loc EXCEPT
                             !.data = [k \in 1..p_loc.size |->
                                         IF k > p_loc.nbytes /\ k <= p_loc.nbytes + len
                                         THEN raw[k - p_loc.nbytes] ELSE p_loc.data[k]],
                             !.nbytes = p_loc.nbytes + len,
                             !.address = p_loc.address + len]
                        /\ UNCHANGED <<p_pc, p_status>>
    /\ UNCHANGED <<p_op, p_events, p_cancelled, p_out>>
    /\ UNCHANGED <<devVars, exVars, tVars, sockVars, ioVars>>

(***************************************************************************)
(* Idle values of the parts a specification does not exercise.             *)
(***************************************************************************)
PIdle ==
    /\ p_op = "none" /\ p_pc = "idle" /\ p_status = "NONE" /\ p_log = <<>>
    /\ p_events = <<>> /\ p_loc = <<>> /\ p_cancelled = FALSE /\ p_out = "NULL"
DevIdle ==
    /\ device = "NULL" /\ fingerprint = ZeroId /\ timestamp = 0 /\ fp_src = "open"
    /\ fp_args = <<>> /\ fp_rc = "NONE" /\ fp_old = <<>>
ExIdle ==
    /\ extractor = "none" /\ data = <<>> /\ size = 0 /\ callback = FALSE
    /\ pc = "idle" /\ i = 0 /\ count = 0 /\ latest = 0 /\ maximum = 0
    /\ previous = 0 /\ remaining = 0 /\ current = 0 /\ calls = <<>>
    /\ stopped = FALSE /\ status = "PENDING" /\ image = <<>>
TIdle ==
    /\ t_limit = 0 /\ t_nretries = 0 /\ t_rc = "NONE" /\ t_pc = "idle"
    /\ t_attempts = <<>> /\ t_answer = 0 /\ t_log = <<>> /\ t_npackets = 0
SockIdle ==
    /\ win32 = FALSE /\ wsa_inits = 0 /\ wsa_exits = 0 /\ open_sockets = 0
    /\ s_last = <<>> /\ s_ops = 0
IoIdle ==
    /\ io_op = "none" /\ io_size = 0 /\ io_nbytes = 0 /\ io_status = "NONE"
    /\ io_pc = "idle" /\ io_actual = NoActual /\ io_timeout = -1 /\ io_err = "none"
    /\ io_moved = 0 /\ io_events = <<>>

(***************************************************************************)
(* Spec: a device session of either family (or no device), zero or more    *)
(* set_fingerprint calls, then one extract_dives call.  The state after    *)
(* construction is that of cressi_leonardo_device_open (lines 178-180) and *)
(* uwatec_smart_device_open (lines 167-171).                               *)
(***************************************************************************)
\* the device states a session can be in when extraction starts: as opened,
\* or after one accepted set_fingerprint call
SessionBuffers == {DiveId(d) \o <<9>> : d \in 1..RB_LOGBOOK_COUNT} \cup {ZeroId \o <<9>>}
CressiSessions ==
    {[fp |-> ZeroId, ts |-> 0, src |-> "open"]}
      \cup {[fp |-> cressi_leonardo_device_set_fingerprint(ZeroId, buf, sz)[2], ts |-> 0,
             src |-> IF sz = 0 THEN "reset" ELSE "stored"] :
                buf \in SessionBuffers, sz \in {0, FP_SIZE}}
UwatecSessions ==
    {[fp |-> ZeroId, ts |-> 0, src |-> "open"]}
      \cup {[fp |-> ZeroId, ts |-> uwatec_smart_device_set_fingerprint(0, buf, sz)[2],
             src |-> IF sz = 0 THEN "reset" ELSE "stored"] :
                buf \in SessionBuffers, sz \in {0, 4}}

Init ==
    /\ device \in {"NULL", "cressi", "uwatec"}
    /\ \E ss \in (IF device = "cressi" THEN CressiSessions
                  ELSE IF device = "uwatec" THEN UwatecSessions
                  ELSE {[fp |-> ZeroId, ts |-> 0, src |-> "open"]}) :
         fingerprint = ss.fp /\ timestamp = ss.ts /\ fp_src = ss.src
    /\ fp_args = <<>> /\ fp_rc = "NONE" /\ fp_old = <<>>
    /\ ExIdle /\ TIdle /\ SockIdle /\ IoIdle /\ PIdle

Next ==
    \/ CressiExtractStart
    \/ CressiScan
    \/ CressiAlloc
    \/ CressiWalk
    \/ UwatecExtractStart
    \/ UwatecSearch

Spec == Init /\ [][Next]_vars

(***************************************************************************)
(* SpecSelfPointing: the cressi extractor on images with one slot whose    *)
(* header and footer pointers are equal, no device given.                  *)
(***************************************************************************)
InitSelfPointing ==
    /\ DevIdle /\ ExIdle /\ TIdle /\ SockIdle /\ IoIdle /\ PIdle

NextSelfPointing ==
    \/ CressiSelfPointingStart
    \/ CressiScan
    \/ CressiAlloc
    \/ CressiWalk

SpecSelfPointing == InitSelfPointing /\ [][NextSelfPointing]_vars

(***************************************************************************)
(* SpecFingerprint: a freshly opened device of either family and any       *)
(* sequence of set_fingerprint calls.                                      *)
(***************************************************************************)
InitFingerprint ==
    /\ device \in {"cressi", "uwatec"}
    /\ fingerprint = ZeroId /\ timestamp = 0 /\ fp_src = "open"
    /\ fp_args = <<>> /\ fp_rc = "NONE" /\ fp_old = <<>>
    /\ ExIdle /\ TIdle /\ SockIdle /\ IoIdle /\ PIdle

NextFingerprint ==
    \/ CressiSetFingerprint
    \/ UwatecSetFingerprint

SpecFingerprint == InitFingerprint /\ [][NextFingerprint]_vars

(***************************************************************************)
(* SpecTransfer: one cressi_leonardo_transfer call.  The retry limit is    *)
(* MAXRETRIES in the source; the loop is modelled for the limits           *)
(* MAXRETRIES-2 .. MAXRETRIES so that limits can be compared.  The         *)
(* environment's behaviour on each of the at most limit+1 attempts is      *)
(* fixed when the call starts.                                             *)
(***************************************************************************)
InitTransfer ==
    /\ DevIdle /\ ExIdle /\ SockIdle /\ IoIdle /\ PIdle
    /\ t_limit \in (MAXRETRIES - 2)..MAXRETRIES
    /\ t_attempts \in [1..(MAXRETRIES + 1) -> PacketBehaviours]
    /\ t_nretries = 0 /\ t_rc = DC_STATUS_SUCCESS /\ t_pc = "loop"
    /\ t_answer = 0 /\ t_log = <<>> /\ t_npackets = 0

NextTransfer == TransferPacket

SpecTransfer == InitTransfer /\ [][NextTransfer]_vars

(***************************************************************************)
(* SpecSocket: any sequence of dc_socket_open and dc_socket_close calls,   *)
(* in a build with or without _WIN32.                                      *)
(***************************************************************************)
InitSocket ==
    /\ DevIdle /\ ExIdle /\ TIdle /\ IoIdle /\ PIdle
    /\ win32 \in BOOLEAN
    /\ wsa_inits = 0 /\ wsa_exits = 0 /\ open_sockets = 0
    /\ s_last = <<>> /\ s_ops = 0

NextSocket ==
    \/ dc_socket_open
    \/ dc_socket_close

SpecSocket == InitSocket /\ [][NextSocket]_vars

(***************************************************************************)
(* SpecSocketIo: an open socket (timeout -1 after dc_socket_open), any     *)
(* dc_socket_set_timeout calls, then one dc_socket_read or                 *)
(* dc_socket_write call.                                                   *)
(***************************************************************************)
InitSocketIo ==
    /\ DevIdle /\ ExIdle /\ TIdle /\ SockIdle /\ IoIdle /\ PIdle

NextSocketIo ==
    \/ dc_socket_set_timeout
    \/ SocketIoStart
    \/ SocketSelect
    \/ SocketTransfer

SpecSocketIo == InitSocketIo /\ [][NextSocketIo]_vars

(***************************************************************************)
(* SpecTermination: one call of cressi_leonardo_transfer, of               *)
(* dc_socket_read or of dc_socket_write, from its entry on, the peer and   *)
(* the system free to answer every system call with any of its results,    *)
(* any number of times.  A call that is running takes its next step: the   *)
(* packet attempt returns, and so do select (the peer makes the socket     *)
(* ready or the call fails) and recv / send.                               *)
(***************************************************************************)
InitTermination ==
    /\ DevIdle /\ ExIdle /\ SockIdle /\ PIdle
    /\ \/ /\ IoIdle
          /\ t_limit = MAXRETRIES
          /\ t_attempts \in [1..(MAXRETRIES + 1) -> PacketBehaviours]
          /\ t_nretries = 0 /\ t_rc = DC_STATUS_SUCCESS /\ t_pc = "loop"
          /\ t_answer = 0 /\ t_log = <<>> /\ t_npackets = 0
       \/ /\ TIdle
          /\ io_op \in {"read", "write"} /\ io_size \in 1..MaxIoSize
          /\ io_timeout \in Timeouts
          /\ io_actual \in {[NoActual EXCEPT !.given = g] : g \in BOOLEAN}
          /\ io_nbytes = 0 /\ io_moved = 0 /\ io_events = <<>> /\ io_err = "none"
          /\ io_status = DC_STATUS_SUCCESS /\ io_pc = "select"

NextTermination ==
    \/ TransferPacket
    \/ SocketSelectFree
    \/ SocketTransferFree

SpecTermination ==
    /\ InitTermination /\ [][NextTermination]_vars
    /\ WF_vars(TransferPacket)
    /\ WF_vars(SocketSelectFree)
    /\ WF_vars(SocketTransferFree)

(***************************************************************************)
(* SpecOpen: one cressi_leonardo_device_open call, and a                   *)
(* cressi_leonardo_device_close of the device when it succeeded.  *out     *)
(* holds NULL or a value left from earlier use when the call is made.      *)
(***************************************************************************)
InitOpen ==
    /\ DevIdle /\ ExIdle /\ TIdle /\ SockIdle /\ IoIdle
    /\ p_op = "none" /\ p_pc = "idle" /\ p_status = "NONE" /\ p_log = <<>>
    /\ p_events = <<>> /\ p_loc = [step |-> 0, out_null |-> FALSE]
    /\ p_cancelled = FALSE
    /\ p_out \in {"NULL", "stale"}

NextOpen ==
    \/ OpenEntry
    \/ OpenSetup
    \/ cressi_leonardo_device_close

SpecOpen == InitOpen /\ [][NextOpen]_vars

(***************************************************************************)
(* SpecEngine: one call of cressi_leonardo_packet,                         *)
(* cressi_leonardo_device_dump, uwatec_smart_handshake or                  *)
(* uwatec_smart_device_dump, while the application may set the cancelled   *)
(* flag at any moment.                                                     *)
(***************************************************************************)
InitEngine ==
    /\ DevIdle /\ ExIdle /\ TIdle /\ SockIdle /\ IoIdle
    /\ p_op = "none" /\ p_pc = "idle" /\ p_status = "NONE" /\ p_log = <<>>
    /\ p_events = <<>> /\ p_loc = EngineLocals
    /\ p_cancelled = FALSE /\ p_out = "NULL"

NextEngine ==
    \/ EngineStart
    \/ Cancel
    \/ PacketEntry
    \/ PacketExchange
    \/ CressiDumpStart
    \/ CressiDumpCommand
    \/ CressiDumpHeader
    \/ CressiDumpChunk
    \/ CressiDumpTrailer
    \/ UwatecHandshake
    \/ UwatecDumpStart
    \/ UwatecDumpIdentify
    \/ UwatecDumpLength
    \/ UwatecDumpData
    \/ UwatecDumpChunk
    \/ UwatecDumpRun

SpecEngine == InitEngine /\ [][NextEngine]_vars

(***************************************************************************)
(* SpecFrame: a device frames a payload with the code of                   *)
(* cressi_leonardo_make_ascii, the line inverts at most one bit of the     *)
(* frame, and cressi_leonardo_packet verifies what arrives.                *)
(***************************************************************************)
InitFrame ==
    /\ DevIdle /\ ExIdle /\ TIdle /\ SockIdle /\ IoIdle
    /\ p_op = "frame" /\ p_pc = "build" /\ p_status = "NONE" /\ p_log = <<>>
    /\ p_events = <<>> /\ p_cancelled = FALSE /\ p_out = "NULL"
    /\ \E payload \in Payloads, lenient \in BOOLEAN :
         p_loc = [payload |-> payload, lenient |-> lenient, frame |-> <<>>,
                  answer |-> <<>>, pos |-> 0, bit |-> 0]

NextFrame ==
    \/ FrameBuild
    \/ FrameLine
    \/ FrameVerify

SpecFrame == InitFrame /\ [][NextFrame]_vars

(***************************************************************************)
(* SpecUwatecOpen: one uwatec_smart_device_open call.  *out holds NULL or  *)
(* a value left from earlier use when the call is made.                    *)
(***************************************************************************)
InitUwatecOpen ==
    /\ DevIdle /\ ExIdle /\ TIdle /\ SockIdle /\ IoIdle
    /\ p_op = "none" /\ p_pc = "idle" /\ p_status = "NONE" /\ p_log = <<>>
    /\ p_events = <<>> /\ p_cancelled = FALSE
    /\ p_loc = [out_null |-> FALSE, found |-> 0, dev |-> 0, hs |-> <<>>]
    /\ p_out \in {"NULL", "stale"}

NextUwatecOpen ==
    \/ UwatecOpenEntry
    \/ UwatecOpenEnumerate
    \/ UwatecOpenSocket
    \/ UwatecOpenHandshake

SpecUwatecOpen == InitUwatecOpen /\ [][NextUwatecOpen]_vars

(***************************************************************************)
(* SpecRead: one cressi_leonardo_device_read call on an open device.       *)
(***************************************************************************)
InitRead ==
    /\ DevIdle /\ ExIdle /\ TIdle /\ SockIdle /\ IoIdle /\ PIdle

NextRead ==
    \/ ReadStart
    \/ ReadLoop

SpecRead == InitRead /\ [][NextRead]_vars

(***************************************************************************)
(* Vocabulary of the properties of cressi_leonardo_extract_dives.          *)
(***************************************************************************)
InCressi == extractor = "cressi"
CressiDone == extractor = "cressi" /\ pc = "done"
\* the device holds the empty fingerprint: never set, or reset with size 0
EmptyFingerprint == device = "cressi" /\ fp_src \in {"open", "reset"}
\* fields of physical slot p of the image
SlotOffset(p) == RB_LOGBOOK_BEGIN + p * RB_LOGBOOK_SIZE
SlotCounter(p) == data[SlotOffset(p)] + 256 * data[SlotOffset(p) + 1]
SlotHeader(p) == data[SlotOffset(p) + 2] + 256 * data[SlotOffset(p) + 3]
SlotFooter(p) == data[SlotOffset(p) + 4] + 256 * data[SlotOffset(p) + 5]
SlotId(p) == [j \in 1..FP_SIZE |-> data[SlotOffset(p) + 7 + j]]
\* the physical slot j steps behind the most recent one, going round the array
Behind(j) == IF latest >= j THEN latest - j ELSE latest - j + RB_LOGBOOK_COUNT
\* counters of the delivered records, in delivery order
DeliveredCounters == [k \in 1..Len(calls) |-> calls[k].rec[1] + 256 * calls[k].rec[2]]
IsPrefix(a, b) == Len(a) <= Len(b) /\ a = SubSeq(b, 1, Len(a))
OutOfProfile(ptr) == ptr < RB_PROFILE_BEGIN \/ ptr + 2 > RB_PROFILE_END

\* 3 written slots with counters 5, 6, 7 in physical order, the rest never written
Image567 == InCressi /\ image.n = 3 /\ image.fault = NoFault
\* the same with counters 5, 7, 6: the slots (or only their counters) 1 and 2 swapped
Image576 ==
    InCressi /\ image.n = 3 /\ image.fault.k = 1
             /\ image.fault.kind \in {"swap_slot", "swap_ctr"}

C3_AsStated ==
    (CressiDone /\ callback /\ EmptyFingerprint /\ ~stopped
        /\ status # DC_STATUS_NOMEMORY
        /\ \E j \in 0..(count - 1) :
              OutOfProfile(SlotHeader(Behind(j))) \/ OutOfProfile(SlotFooter(Behind(j))))
    => (status = DC_STATUS_DATAFORMAT /\ calls = <<>>)

(***************************************************************************)
(* C3 amended: when the walk reaches a slot whose header or footer         *)
(* pointer is outside the profile region, that iteration returns           *)
(* DataFormat without invoking the consumer for this slot (or any later    *)
(* one); the slots visited before it have been delivered already, so the   *)
(* consumer has seen zero records only if the offending slot is the first  *)
(* one visited.                                                            *)
(***************************************************************************)
C3_ReachedSlot ==
    [][ (extractor = "cressi" /\ pc = "walk"
           /\ (OutOfProfile(SlotHeader(Behind(i))) \/ OutOfProfile(SlotFooter(Behind(i)))))
        => (pc' = "done" /\ status' = DC_STATUS_DATAFORMAT /\ calls' = calls
              /\ (i = 0 => calls' = <<>>)) ]_vars

C3_Witness ==
    /\ CressiDone /\ status = DC_STATUS_DATAFORMAT /\ i >= 1 /\ i < count
    /\ Len(calls) = i
    /\ (OutOfProfile(SlotHeader(Behind(i))) \/ OutOfProfile(SlotFooter(Behind(i))))

(***************************************************************************)
(* C4: fingerprint boundary.  Let k be the first slot of the walk whose    *)
(* identifier equals the device fingerprint.  No delivered record carries  *)
(* the fingerprint; the records delivered are the slots 0, 1, ... places   *)
(* behind the most recent one, each once and in that order; when the walk  *)
(* gets to slot k (its pointers in range and continuous with the slot      *)
(* before) the call returns Success having delivered exactly the k slots   *)
(* visited before it; and a call that returns Success without the          *)
(* consumer stopping it has delivered exactly those k slots.               *)
(***************************************************************************)
HasMatch == \E j \in 0..(count - 1) : SlotId(Behind(j)) = fingerprint
FirstMatch ==
    CHOOSE j \in 0..(count - 1) :
        /\ SlotId(Behind(j)) = fingerprint
        /\ \A m \in 0..(j - 1) : SlotId(Behind(m)) # fingerprint

C5_AsStated ==
    (CressiDone /\ EmptyFingerprint /\ callback /\ ~stopped
        /\ status = DC_STATUS_SUCCESS)
    => Len(calls) = count

(***************************************************************************)
(* C5 amended: the empty fingerprint is stored as five zero bytes, and a   *)
(* slot whose identifier is five zero bytes is taken for the already-seen  *)
(* boundary: it is never delivered.  A Success call (consumer never        *)
(* stopping) has delivered every scanned slot unless it ended at such a    *)
(* slot; no slot with any other identifier ends it.                        *)
(***************************************************************************)
C5_ZeroIdBoundary ==
    (InCressi /\ EmptyFingerprint /\ callback) =>
        /\ \A k \in 1..Len(calls) : calls[k].fp # ZeroId
        /\ (pc = "done" /\ ~stopped /\ status = DC_STATUS_SUCCESS)
            => (Len(calls) = count \/ SlotId(Behind(Len(calls))) = ZeroId)

C5_Witness ==
    /\ CressiDone /\ EmptyFingerprint /\ callback /\ ~stopped
    /\ status = DC_STATUS_SUCCESS
    /\ Len(calls) >= 1 /\ Len(calls) < count
    /\ SlotId(Behind(Len(calls))) = ZeroId

(***************************************************************************)
(* C6: the profile bytes of a delivered record are the bytes of the ring   *)
(* from header+2 on, continuing at the begin of the ring after its end;    *)
(* for an undamaged dive that no newer dive has overwritten they are the   *)
(* dive's profile, whether or not its place in the ring crosses the end.   *)
(***************************************************************************)
Intact(desc, d) ==
    \A k \in 0..(3 + desc.L[d]) :
        SetMax(Covering(desc, Circ(DiveHeader(desc, d) + k))) = d

C6_WrapCopy ==
    InCressi =>
      \A k \in 1..Len(calls) :
        LET c == calls[k]
            h == SlotHeader(c.idx)
            n == c.len - RB_LOGBOOK_SIZE
            d == SlotDive(image, c.idx)
        IN  /\ Len(c.rec) = c.len
            /\ \A j \in 1..n :
                  c.rec[RB_LOGBOOK_SIZE + j] =
                     data[IF h + 1 + j < RB_PROFILE_END
                          THEN h + 1 + j
                          ELSE h + 1 + j - (RB_PROFILE_END - RB_PROFILE_BEGIN)]
            /\ (image.fault = NoFault /\ n > 0 /\ Intact(image, d))
                 => SubSeq(c.rec, RB_LOGBOOK_SIZE + 1, c.len) = ProfileContent(image, d)

C6_Witness ==
    /\ InCressi
    /\ \E k \in 1..Len(calls) :
         LET h == SlotHeader(calls[k].idx)
             n == calls[k].len - RB_LOGBOOK_SIZE
         IN  h + 2 < RB_PROFILE_END /\ h + 2 + n > RB_PROFILE_END
               /\ image.fault = NoFault /\ Intact(image, SlotDive(image, calls[k].idx))

(***************************************************************************)
(* C7: in both extractors, once the consumer has returned 'stop' the call  *)
(* is over with Success and the consumer is not invoked again.  A status   *)
(* other than Success is InvalidArgs (a device of another family),         *)
(* NoMemory, or DataFormat, and DataFormat only when the image fails a     *)
(* structural check (too short, pointer out of range, profiles not         *)
(* continuous, pointer pair not echoed; uwatec: a record overrunning the   *)
(* one after it): never when every slot was processed, and never when the  *)
(* slot that ended the walk is a well-formed slot carrying the fingerprint.*)
(***************************************************************************)
CressiStructureFails ==
    \/ size < SZ_MEMORY
    \/ /\ i < count
       /\ LET h == SlotHeader(Behind(i))
              f == SlotFooter(Behind(i))
          IN  \/ OutOfProfile(h) \/ OutOfProfile(f)
              \/ (previous # 0 /\ previous # f + 2)
              \/ data[f] + 256 * data[f + 1] # h
              \/ data[h] + 256 * data[h + 1] # f
UwatecStructureFails ==
    /\ current + 4 <= size
    /\ [j \in 1..4 |-> data[current + j - 1]] = UHeader
    /\ (current + 8 <= size =>
          UGt(current + array_uint32_le([j \in 1..4 |-> data[current + 3 + j]]), previous))

U32Bytes(v) == [j \in 1..4 |-> (v \div (256 ^ (j - 1))) % 256]

C8_SetFingerprint ==
    fp_args # <<>> =>
      LET buf == fp_args[1]
          sz == fp_args[2]
          fixed == IF device = "cressi" THEN FP_SIZE ELSE 4
          stored == IF device = "cressi" THEN fingerprint ELSE U32Bytes(timestamp)
          before == IF device = "cressi" THEN fp_old ELSE U32Bytes(fp_old)
      IN  /\ (sz \notin {0, fixed} => fp_rc = DC_STATUS_INVALIDARGS /\ stored = before)
          /\ (sz = 0 => fp_rc = DC_STATUS_SUCCESS /\ stored = [j \in 1..fixed |-> 0])
          /\ (sz = fixed => fp_rc = DC_STATUS_SUCCESS /\ stored = SubSeq(buf, 1, fixed))

C8_Witness ==
    /\ fp_args # <<>> /\ fp_rc = DC_STATUS_INVALIDARGS
    /\ fp_args[2] \notin {0, FP_SIZE}
    /\ device = "cressi" /\ fingerprint # ZeroId /\ fingerprint = fp_old

(***************************************************************************)
(* C1 as stated: when the first three attempts fail the checksum           *)
(* validation and the fourth would validate, the transfer with limit 4     *)
(* returns Success with the fourth response, and the transfer with limit 3 *)
(* returns Protocol.                                                       *)
(***************************************************************************)
ThreeCrcFailuresThenValid ==
    /\ \A k \in 1..3 : t_attempts[k] = PacketBadCrc
    /\ cressi_leonardo_packet(t_attempts[4]) = DC_STATUS_SUCCESS

C1_AsStated ==
    (t_pc = "done" /\ ThreeCrcFailuresThenValid) =>
        /\ (t_limit = 4 => t_rc = DC_STATUS_SUCCESS /\ t_answer = 4)
        /\ (t_limit = 3 => t_rc = DC_STATUS_PROTOCOL)

(***************************************************************************)
(* C1 amended: the limit counts retries, not attempts.  When the first     *)
(* three attempts fail the checksum validation and the fourth validates,   *)
(* the transfer returns Success with the fourth response for limit 4 and   *)
(* for limit 3 alike, and Protocol (after three attempts) only for limit   *)
(* 2; in general the transfer gives up with Protocol or Timeout only after *)
(* limit+1 attempts have failed that way.                                  *)
(***************************************************************************)
C1_RetryBudget ==
    t_pc = "done" =>
        /\ (ThreeCrcFailuresThenValid /\ t_limit >= 3)
             => (t_rc = DC_STATUS_SUCCESS /\ t_answer = 4 /\ t_npackets = 4)
        /\ (ThreeCrcFailuresThenValid /\ t_limit = 2)
             => (t_rc = DC_STATUS_PROTOCOL /\ t_npackets = 3)
        /\ (t_rc \in {DC_STATUS_PROTOCOL, DC_STATUS_TIMEOUT})
             => /\ t_npackets = t_limit + 1
                /\ \A k \in 1..t_npackets :
                      cressi_leonardo_packet(t_attempts[k])
                          \in {DC_STATUS_PROTOCOL, DC_STATUS_TIMEOUT}

C1_Witness ==
    /\ t_pc = "done" /\ t_limit = 3 /\ ThreeCrcFailuresThenValid
    /\ t_rc = DC_STATUS_SUCCESS /\ t_answer = 4

(***************************************************************************)
(* C9 as stated: a finished dc_socket_read / dc_socket_write returned      *)
(* Success iff exactly size bytes were moved; Timeout when a wait expired  *)
(* or recv/send returned zero with fewer bytes moved; no interrupted or    *)
(* would-block result of select, recv or send became the return status     *)
(* (each was retried); and actual is the number of bytes moved, at most    *)
(* size.                                                                   *)
(***************************************************************************)
IoDone == io_pc = "done"
IoLast == io_events[Len(io_events)]
IoEndedWaiting ==
    /\ io_events # <<>>
    /\ (IoLast.kind = "expired" \/ (IoLast.kind = "bytes" /\ IoLast.n = 0))
IoCounts ==
    /\ io_nbytes = io_moved /\ io_moved <= io_size
    /\ io_actual.given => (io_actual.set /\ io_actual.value = io_moved)
IoStatusByCount ==
    /\ (io_status = DC_STATUS_SUCCESS <=> io_moved = io_size)
    /\ (IoEndedWaiting => io_status = DC_STATUS_TIMEOUT)
    /\ (io_status = DC_STATUS_TIMEOUT => IoEndedWaiting /\ io_moved < io_size)

C9_AsStated ==
    IoDone =>
        /\ IoStatusByCount
        /\ IoCounts
        /\ \A k \in DOMAIN io_events :
              io_events[k].errcode \in {"EINTR", "EAGAIN"}
                 => (k < Len(io_events) /\ io_events[k + 1].call = "select")
        /\ io_err \notin {"EINTR", "EAGAIN"}

(***************************************************************************)
(* C9 amended: as stated, except that what is always retried is an         *)
(* interrupted result of select, recv or send and a would-block result of  *)
(* recv or send; a would-block result of select is not retried but ends    *)
(* the call with the status IO (actual still being the bytes moved so      *)
(* far).                                                                   *)
(***************************************************************************)
C9_RetryAndCount ==
    IoDone =>
        /\ IoStatusByCount
        /\ IoCounts
        /\ \A k \in DOMAIN io_events :
              (\/ io_events[k].errcode = "EINTR"
               \/ (io_events[k].errcode = "EAGAIN" /\ io_events[k].call # "select"))
                 => (k < Len(io_events) /\ io_events[k + 1].call = "select")
        /\ io_err # "EINTR"
        /\ (io_err = "EAGAIN" => (IoLast.call = "select" /\ io_status = DC_STATUS_IO))

C9_Witness ==
    /\ IoDone /\ io_status = DC_STATUS_TIMEOUT
    /\ io_actual.set /\ io_actual.value = io_moved
    /\ io_moved >= 1 /\ io_moved < io_size
    /\ \E k \in DOMAIN io_events :
          io_events[k].errcode = "EAGAIN" /\ io_events[k].call # "select"
    /\ \E k \in DOMAIN io_events :
          io_events[k].errcode = "EINTR" /\ io_events[k].call = "select"

(***************************************************************************)
(* C10 as stated: after any sequence of dc_socket_open and dc_socket_close *)
(* calls, the successful library initialisations minus the library exits   *)
(* equal the number of sockets open; an open that returned an error has    *)
(* left no library reference and no socket.                                *)
(***************************************************************************)
C10_AsStated ==
    wsa_inits - wsa_exits = open_sockets

(***************************************************************************)
(* C11: dc_socket_close performs shutdown, the close of the descriptor     *)
(* and the library exit, in this order, whichever of them fail; its result *)
(* is the error of the descriptor close if that failed, else the error of  *)
(* the library exit if that failed, else Success: a failed shutdown alone  *)
(* leaves the result Success.                                              *)
(***************************************************************************)
LastIsClose == s_last # <<>> /\ s_last.op = "close"

C11_CloseTeardown ==
    LastIsClose =>
        /\ s_last.steps = <<"shutdown", "close", "exit">>
        /\ s_last.status =
             (IF s_last.closed # "ok" THEN dc_socket_syserror(s_last.closed)
              ELSE IF win32 /\ s_last.cleanup # "ok"
                   THEN dc_socket_syserror(s_last.cleanup)
              ELSE DC_STATUS_SUCCESS)

C11_Witness ==
    /\ LastIsClose /\ win32
    /\ s_last.shut # "ok" /\ s_last.closed = "EACCES" /\ s_last.cleanup = "ENOMEM"
    /\ s_last.status = DC_STATUS_NOACCESS
    /\ s_last.steps = <<"shutdown", "close", "exit">>

(***************************************************************************)
(* C19: in cressi_leonardo_transfer an attempt that fails with a status    *)
(* other than Protocol or Timeout ends the call with that status right     *)
(* after that attempt; between two consecutive attempts there is exactly   *)
(* one sleep followed by one purge of the input; when the retry budget is  *)
(* exhausted the result is the status of the last attempt, and no sleep or *)
(* purge follows it.                                                       *)
(***************************************************************************)
AttemptStatus(k) == cressi_leonardo_packet(t_attempts[k])

\* the log of n attempts with a sleep and a purge after each but, when the
\* call has returned, the last
AttemptLog(n, returned) ==
    [j \in 1..(IF returned THEN 3 * n - 2 ELSE 3 * n) |->
        IF j % 3 = 1 THEN "packet" ELSE IF j % 3 = 2 THEN "sleep" ELSE "purge"]

C19_AttemptsSleepPurge ==
    t_npackets > 0 =>
        /\ t_log = AttemptLog(t_npackets, t_pc = "done")
        /\ \A k \in 1..t_npackets :
              AttemptStatus(k) \notin {DC_STATUS_SUCCESS, DC_STATUS_PROTOCOL,
                                       DC_STATUS_TIMEOUT}
                 => k = t_npackets /\ t_pc = "done" /\ t_rc = AttemptStatus(k)
        /\ t_pc = "done" => t_rc = AttemptStatus(t_npackets)

C19_Witness ==
    /\ t_pc = "done" /\ t_limit = MAXRETRIES /\ t_npackets = MAXRETRIES + 1
    /\ t_rc = DC_STATUS_TIMEOUT
    /\ AttemptStatus(1) = DC_STATUS_PROTOCOL
    /\ Len(t_log) = 3 * t_npackets - 2

(***************************************************************************)
(* C20 as stated: in the walk, from the second visited slot on, the footer *)
(* pointer of the previously visited slot must equal the footer pointer of *)
(* the current slot plus 2 taken round the profile ring, a mismatch being  *)
(* answered with DataFormat; a pair adjacent across the end of the ring    *)
(* passes the test; the value remembered for the next iteration is the     *)
(* footer pointer of the current slot.                                     *)
(***************************************************************************)
\* the walk is about to visit a slot whose pointers lie in the profile ring
WalkAtValidSlot ==
    /\ extractor = "cressi" /\ pc = "walk" /\ i < count
    /\ ~OutOfProfile(SlotHeader(Behind(i))) /\ ~OutOfProfile(SlotFooter(Behind(i)))

RECURSIVE TicksFrom(_)
\* the time blocked in the calls io_events[k], io_events[k + 1], ...
TicksFrom(k) ==
    IF k > Len(io_events) THEN 0 ELSE io_events[k].ticks + TicksFrom(k + 1)
IoBlocked == TicksFrom(1)
IoWaits == {k \in DOMAIN io_events : io_events[k].call = "select"}
ReadDone == io_pc = "done" /\ io_op = "read"

ExpiryEndsRead ==
    \A k \in IoWaits :
        io_events[k].kind = "expired"
           => /\ k = Len(io_events)
              /\ io_status = DC_STATUS_TIMEOUT
              /\ io_moved < io_size
              /\ io_timeout >= 0 /\ io_events[k].ticks = io_timeout

C13_AsStated ==
    ReadDone =>
        /\ ExpiryEndsRead
        /\ (io_timeout >= 0 => IoBlocked <= io_timeout)

(***************************************************************************)
(* C12 as stated: every call of dc_socket_read, dc_socket_write and        *)
(* cressi_leonardo_transfer returns, whatever the peer and the system      *)
(* answer: a call that is in its loop eventually leaves it.                *)
(***************************************************************************)
C12_AsStated ==
    /\ (io_pc \in {"select", "xfer"}) ~> (io_pc = "done")
    /\ (t_pc = "loop") ~> (t_pc = "done")

(***************************************************************************)
(* Of the three only cressi_leonardo_transfer is bounded: it returns after *)
(* at most MAXRETRIES + 1 packet attempts.                                 *)
(***************************************************************************)
TransferReturns == (t_pc = "loop") ~> (t_pc = "done" /\ t_npackets <= MAXRETRIES + 1)

(***************************************************************************)
(* C14: when a setup step of cressi_leonardo_device_open fails (serial     *)
(* open, configure, set_timeout, set RTS, set DTR, clear DTR), the call    *)
(* returns the status of that step, the serial port has been closed once   *)
(* if it had been opened and not at all otherwise, the device has been     *)
(* deallocated once, and *out holds what it held before the call.          *)
(***************************************************************************)
CallsOf(call) == {k \in DOMAIN p_log : p_log[k].call = call}
\* the setup steps that returned an error
FailedSteps ==
    {k \in DOMAIN p_log : /\ p_log[k].rc # DC_STATUS_SUCCESS
                          /\ \E step \in DOMAIN SetupSteps :
                                p_log[k].call = SetupSteps[step]}
OpenFailedAtSetup == p_op = "open" /\ p_pc = "done" /\ FailedSteps # {}

C14_OpenFailure ==
    /\ [](OpenFailedAtSetup =>
         \E k \in FailedSteps :
            /\ FailedSteps = {k}
            /\ p_status = p_log[k].rc
            /\ Cardinality(CallsOf("dc_serial_close")) =
                 (IF p_log[k].call = "dc_serial_open" THEN 0 ELSE 1)
            /\ \A c \in CallsOf("dc_serial_close") \cup CallsOf("dc_device_deallocate") :
                  c > k
            /\ Cardinality(CallsOf("dc_device_deallocate")) = 1
            /\ \A c \in CallsOf("dc_serial_close") :
                  \A d \in CallsOf("dc_device_deallocate") : c < d)
    /\ [][(p_op' = "open" /\ p_pc' = "done") => p_out' = p_out]_vars

\* set_dtr(0), the last of the steps, failed while *out held a stale pointer
C14_Witness ==
    /\ OpenFailedAtSetup /\ p_status = DC_STATUS_TIMEOUT /\ p_out = "stale"
    /\ p_log[Len(p_log) - 2] = PCall("dc_serial_set_dtr(0)", DC_STATUS_TIMEOUT)
    /\ p_log[Len(p_log) - 1].call = "dc_serial_close"
    /\ p_log[Len(p_log)].call = "dc_device_deallocate"

(***************************************************************************)
(* C15 as stated: every command an engine writes to the transport is       *)
(* preceded by a test of the cancelled flag; once the application has set  *)
(* the flag no further command is written, the transfer in flight (a       *)
(* command written just before, and its answer) runs to its end, and the   *)
(* operation returns Cancelled.                                            *)
(***************************************************************************)
Commands == CallsOf("write")
CancelMarks == CallsOf("cancel")
\* the call made before p_log[k], the marks left aside (0 when there is none)
PrevCall(k) ==
    LET before == {j \in 1..(k - 1) : p_log[j].call # "cancel"}
    IN  IF before = {} THEN 0 ELSE SetMax(before)
\* the command p_log[k] was written right after a test of the flag
CheckedCommand(k) ==
    PrevCall(k) > 0 /\ p_log[PrevCall(k)].call = "device_is_cancelled"
\* every command follows a test of the flag; none is started after the flag
\* was set (a flag set between the test and the command finds the request in
\* flight); an operation called with the flag set returns Cancelled
CancelHonoured ==
    /\ \A k \in Commands : CheckedCommand(k)
    /\ \A k \in Commands : \A c \in CancelMarks : c < k => PrevCall(k) < c
    /\ (p_pc = "done" /\ 1 \in CancelMarks) => p_status = DC_STATUS_CANCELLED

C15_AsStated == CancelHonoured

\* what the code does keep: cressi_leonardo_packet
PacketChecksFlag == p_op = "packet" => CancelHonoured

(***************************************************************************)
(* C16 as stated: across the progress events of one dump `current` never   *)
(* decreases and is at most `maximum` at every event (both unsigned), one  *)
(* event follows every chunk read, and when the dump returns Success the   *)
(* last event has current = maximum.                                       *)
(***************************************************************************)
InDump == p_op \in {"cressi_dump", "uwatec_dump"}
LastEvent == p_events[Len(p_events)]
ProgressConsistent ==
    /\ \A k \in DOMAIN p_events : ULe(p_events[k].current, p_events[k].maximum)
    /\ \A k \in DOMAIN p_events :
          k > 1 => ULe(p_events[k - 1].current, p_events[k].current)
    /\ (p_pc = "done" /\ p_status = DC_STATUS_SUCCESS)
          => (p_events # <<>> /\ LastEvent.current = LastEvent.maximum)
    /\ p_loc.chunks > 0 => (p_events # <<>> /\ LastEvent.current = p_loc.current)

C16_AsStated == InDump => ProgressConsistent

\* what the code does keep: the events of cressi_leonardo_device_dump, and
\* those of uwatec_smart_device_dump for the lengths below 2^31 (here 0, 1,
\* 40 and 70), which leave the sum far from wrapping
CressiProgressConsistent ==
    (p_op = "cressi_dump" \/ (p_op = "uwatec_dump" /\ p_loc.length >= 0))
        => ProgressConsistent

(***************************************************************************)
(* C17 as stated: a response frame that is the correct frame of a payload  *)
(* but for one inverted bit in one of its 4 checksum characters is never   *)
(* accepted: cressi_leonardo_packet returns Protocol, also when the bit    *)
(* makes of a hex digit a letter of the other case or a character that is  *)
(* no hex digit.                                                           *)
(***************************************************************************)
FrameDone == p_op = "frame" /\ p_pc = "done"
\* the positions of the 4 checksum characters in the frame
CrcPositions == (Len(p_loc.frame) - 4)..(Len(p_loc.frame) - 1)

C17_AsStated ==
    (FrameDone /\ p_loc.pos \in CrcPositions) => p_status = DC_STATUS_PROTOCOL

\* what the code does keep: an inverted bit that makes of a checksum
\* character another hex digit of the same case is refused
CrcDigitFlipRefused ==
    (FrameDone /\ p_loc.pos \in CrcPositions
        /\ HexValue(p_loc.answer[p_loc.pos], FALSE) >= 0)
    => p_status = DC_STATUS_PROTOCOL

(***************************************************************************)
(* C18 as stated: the frame of an N-byte payload has 2N + 6 bytes: '{',    *)
(* the 2N hex digits of the payload, the 4 hex digits of the CRC16 of the  *)
(* raw payload bytes, high byte first, and '}'; a response is accepted     *)
(* only if both markers are there and the checksum received equals the one *)
(* computed over the hex-decoded payload, and is refused with Protocol     *)
(* otherwise.                                                              *)
(***************************************************************************)
FrameBuilt == p_op = "frame" /\ p_pc # "build"
CrcField(f) == SubSeq(f, Len(f) - 4, Len(f) - 1)
HexField(f) == SubSeq(f, 2, Len(f) - 5)
Hex16(crc) == array_convert_bin2hex(<<(crc \div 256) % 256, crc % 256>>)
\* the payload characters of the answer, decoded
Decoded(f) ==
    array_convert_hex2bin(HexField(f), [k \in 1..(Len(HexField(f)) \div 2) |-> 0],
                          p_loc.lenient).out

C18_AsStated ==
    /\ FrameBuilt =>
          /\ Len(p_loc.frame) = 2 * Len(p_loc.payload) + 6
          /\ p_loc.frame[1] = 123 /\ p_loc.frame[Len(p_loc.frame)] = 125
          /\ HexField(p_loc.frame) = array_convert_bin2hex(p_loc.payload)
          /\ CrcField(p_loc.frame) = Hex16(checksum_crc_ccitt_uint16(p_loc.payload))
    /\ FrameDone =>
          /\ p_status \in {DC_STATUS_SUCCESS, DC_STATUS_PROTOCOL}
          /\ p_status = DC_STATUS_SUCCESS =>
                /\ p_loc.answer[1] = 123 /\ p_loc.answer[Len(p_loc.answer)] = 125
                /\ CrcField(p_loc.answer)
                     = Hex16(checksum_crc_ccitt_uint16(Decoded(p_loc.answer)))

(***************************************************************************)
(* C18 amended: the checksum is that of the hex characters, not of the raw *)
(* bytes.  The frame of an N-byte payload has 2N + 6 bytes: '{', the 2N    *)
(* hex digits of the payload, the 4 hex digits of the CRC16 computed over  *)
(* those 2N characters, high byte first, and '}'.  A response is accepted  *)
(* only if both markers are there and the checksum field, converted from   *)
(* hex into two bytes that start as 0, equals the CRC16 computed over the  *)
(* characters received between '{' and the field; otherwise it is refused  *)
(* with Protocol.                                                          *)
(***************************************************************************)
C18_FrameLayout ==
    /\ FrameBuilt =>
          /\ Len(p_loc.frame) = 2 * Len(p_loc.payload) + 6
          /\ p_loc.frame[1] = 123 /\ p_loc.frame[Len(p_loc.frame)] = 125
          /\ HexField(p_loc.frame) = array_convert_bin2hex(p_loc.payload)
          /\ CrcField(p_loc.frame)
               = Hex16(checksum_crc_ccitt_uint16(array_convert_bin2hex(p_loc.payload)))
    /\ FrameDone =>
          /\ p_status \in {DC_STATUS_SUCCESS, DC_STATUS_PROTOCOL}
          /\ p_status = DC_STATUS_SUCCESS <=>
                /\ p_loc.answer[1] = 123 /\ p_loc.answer[Len(p_loc.answer)] = 125
                /\ array_uint16_be(array_convert_hex2bin(CrcField(p_loc.answer), <<0, 0>>,
                                                         p_loc.lenient).out)
                     = checksum_crc_ccitt_uint16(HexField(p_loc.answer))

\* the intact frame {4A8CBB} of the payload 0x4A was accepted, and its
\* checksum 8CBB is not the CRC16 of the raw byte (087E)
C18_Witness ==
    /\ FrameDone /\ p_status = DC_STATUS_SUCCESS /\ p_loc.pos = 0
    /\ p_loc.payload = <<74>>
    /\ p_loc.answer = <<123, 52, 65, 56, 67, 66, 66, 125>>
    /\ checksum_crc_ccitt_uint16(p_loc.payload) = 2174

(***************************************************************************)
(* C21: in the walk of the cressi extractor the remaining capacity starts  *)
(* at the size of the profile ring and stays between 0 and that size; a    *)
(* slot that passed the pointer, continuity and fingerprint tests is       *)
(* delivered with its profile, the capacity going down by profile length   *)
(* plus 4, when the capacity is at least that much, and otherwise is still *)
(* delivered, as the bare logbook slot, the capacity dropping to 0 and the *)
(* extraction not ending in an error.                                      *)
(***************************************************************************)
\* the walk is about to visit a slot that passes the tests of lines 491-507
WalkAtAcceptedSlot ==
    /\ WalkAtValidSlot
    /\ (i > 0 => SlotHeader(Behind(i - 1)) = SlotFooter(Behind(i)) + 2)
    /\ ~(device = "cressi" /\ SlotId(Behind(i)) = fingerprint)
\* the profile length of the slot the walk is about to visit
WalkLength == RB_PROFILE_DISTANCE(SlotHeader(Behind(i)), SlotFooter(Behind(i))) - 2

C21_GracefulDegrade ==
    /\ []((extractor = "cressi" /\ pc = "walk") =>
             /\ remaining \in 0..(RB_PROFILE_END - RB_PROFILE_BEGIN)
             /\ (i = 0 => remaining = RB_PROFILE_END - RB_PROFILE_BEGIN))
    /\ [][ /\ (WalkAtAcceptedSlot /\ WalkLength >= 0 /\ remaining < WalkLength + 4)
               => /\ status' \in {"PENDING", DC_STATUS_SUCCESS}
                  /\ remaining' = 0
                  /\ (callback =>
                        /\ Len(calls') = Len(calls) + 1
                        /\ calls'[Len(calls')].len = RB_LOGBOOK_SIZE
                        /\ calls'[Len(calls')].rec
                              = Bytes(data, SlotOffset(Behind(i)), RB_LOGBOOK_SIZE))
           /\ (WalkAtAcceptedSlot /\ calls' # calls /\ remaining >= WalkLength + 4)
               => /\ calls'[Len(calls')].len = RB_LOGBOOK_SIZE + WalkLength
                  /\ remaining' = remaining - (WalkLength + 4)
                  /\ remaining' >= 0 ]_vars

\* a dive with a profile of at least one byte has been delivered as the bare
\* slot because the capacity left was too small, and no error was returned
C21_Witness ==
    /\ extractor = "cressi" /\ pc \in {"walk", "done"} /\ remaining = 0
    /\ status \in {"PENDING", DC_STATUS_SUCCESS}
    /\ \E k \in 1..Len(calls) :
          /\ calls[k].len = RB_LOGBOOK_SIZE
          /\ RB_PROFILE_DISTANCE(SlotHeader(calls[k].idx), SlotFooter(calls[k].idx)) - 2 > 0

(***************************************************************************)
(* C22 as stated: every record the cressi extractor has delivered belongs  *)
(* to a slot whose pointer pair is echoed in the profile ring: the 16-bit  *)
(* value at the footer offset is the slot's header pointer and the value   *)
(* at the header offset is its footer pointer.                             *)
(***************************************************************************)
\* the profile ring echoes the pointer pair of physical slot p
Echoed(p) ==
    /\ data[SlotFooter(p)] + 256 * data[SlotFooter(p) + 1] = SlotHeader(p)
    /\ data[SlotHeader(p)] + 256 * data[SlotHeader(p) + 1] = SlotFooter(p)

C22_AsStated ==
    extractor = "cressi" => \A k \in 1..Len(calls) : Echoed(calls[k].idx)

(***************************************************************************)
(* C22 amended: the pointer pair is compared with its echo in the profile  *)
(* ring only for a slot whose profile is going to be copied (the capacity  *)
(* left is at least profile length plus 4).  Such a slot is delivered only *)
(* if the echo matches, and a mismatch returns DataFormat without          *)
(* delivering it; every record delivered with profile bytes has an echoed  *)
(* pair.  A slot delivered as the bare logbook slot because the capacity   *)
(* is used up is delivered without the comparison.                         *)
(***************************************************************************)
C22_EchoChecked ==
    /\ [](extractor = "cressi" =>
             \A k \in 1..Len(calls) :
                calls[k].len > RB_LOGBOOK_SIZE => Echoed(calls[k].idx))
    /\ [][ /\ (WalkAtAcceptedSlot /\ remaining >= WalkLength + 4
                  /\ ~Echoed(Behind(i)))
               => (pc' = "done" /\ status' = DC_STATUS_DATAFORMAT /\ calls' = calls)
           /\ (WalkAtAcceptedSlot /\ remaining >= WalkLength + 4
                  /\ calls' # calls)
               => Echoed(Behind(i))
           /\ (WalkAtAcceptedSlot /\ remaining < WalkLength + 4 /\ callback)
               => (calls' # calls /\ status' # DC_STATUS_DATAFORMAT) ]_vars

\* a slot whose profile would have fitted was refused with DataFormat because
\* the ring does not echo its pointers, and a slot with an overwritten echo
\* was delivered as the bare slot in another run
C22_Witness ==
    /\ CressiDone /\ status = DC_STATUS_DATAFORMAT /\ i < count
    /\ image.fault.kind \in {"echo_hdr", "echo_ftr"}
    /\ ~OutOfProfile(SlotHeader(Behind(i))) /\ ~OutOfProfile(SlotFooter(Behind(i)))
    /\ (i > 0 => SlotHeader(Behind(i - 1)) = SlotFooter(Behind(i)) + 2)
    /\ ~(device = "cressi" /\ SlotId(Behind(i)) = fingerprint)
    /\ remaining >= WalkLength + 4
    /\ ~Echoed(Behind(i))
    /\ Len(calls) = i

(***************************************************************************)
(* C23: the logbook scan of the cressi extractor goes through the slots in *)
(* physical order and no scan step returns.  Once it is over, count is the *)
(* number of slots before the first one that is all 0xFF or has the        *)
(* counter 0xFFFF (the number of slots if there is none) and, when count   *)
(* is not 0, latest is a slot among them with the largest counter.  An     *)
(* image whose first slot was never written ends with no consumer call and *)
(* with Success (NoMemory if the scratch buffer could not be allocated).   *)
(***************************************************************************)
\* physical slot p ends the scan
EndsScan(p) ==
    (\A j \in 0..(RB_LOGBOOK_SIZE - 1) : data[SlotOffset(p) + j] = 255)
        \/ SlotCounter(p) = 65535
\* the number of slots before the first one that ends the scan
Counted ==
    IF \E p \in 0..(RB_LOGBOOK_COUNT - 1) : EndsScan(p)
    THEN CHOOSE p \in 0..(RB_LOGBOOK_COUNT - 1) :
            EndsScan(p) /\ \A q \in 0..(p - 1) : ~EndsScan(q)
    ELSE RB_LOGBOOK_COUNT
\* the scan of the image is over
ScanOver ==
    /\ extractor = "cressi" /\ device # "uwatec" /\ size >= SZ_MEMORY
    /\ pc \in {"alloc", "walk", "done"}

C23_Scan ==
    /\ [](ScanOver =>
             /\ count = Counted
             /\ (count > 0 =>
                    /\ latest < count
                    /\ \A q \in 0..(count - 1) : SlotCounter(q) <= SlotCounter(latest))
             /\ (pc = "done" /\ Counted = 0 =>
                    /\ calls = <<>>
                    /\ status \in {DC_STATUS_SUCCESS, DC_STATUS_NOMEMORY}))
    /\ []((extractor = "cressi" /\ pc = "scan") =>
             /\ status = "PENDING" /\ count = i /\ calls = <<>>
             /\ \A q \in 0..(i - 1) : ~EndsScan(q))
    /\ [][(extractor = "cressi" /\ pc = "scan") =>
             /\ status' = "PENDING"
             /\ i' \in {i, i + 1}
             /\ (i' = i => pc' = "alloc" /\ EndsScan(i)) ]_vars

\* the scan stopped at a slot with the counter 0xFFFF behind one accepted
\* slot, and the extraction went on to deliver that slot and return Success
C23_Witness ==
    /\ CressiDone /\ status = DC_STATUS_SUCCESS
    /\ image.fault = [kind |-> "ctr_ffff", k |-> 1]
    /\ count = 1 /\ SlotCounter(1) = 65535 /\ ~EndsScan(0)
    /\ Len(calls) = 1

(***************************************************************************)
(* C24 as stated: the k-th request of cressi_leonardo_device_read carries  *)
(* a frame that encodes exactly its address a_k and its length l_k, for    *)
(* every start address.                                                    *)
(***************************************************************************)
\* the address and the length the frame of request k carries
FrameFields(k) ==
    LET raw == array_convert_hex2bin(SubSeq(p_log[k].command, 2, 9),
                                     <<0, 0, 0, 0>>, FALSE).out
    IN  [address |-> raw[1] * 256 + raw[2], len |-> raw[3] * 256 + raw[4]]
\* the address request k is for: the start address plus the lengths before
RequestAddress(k) == p_loc.address0 + (k - 1) * PACKETSIZE

C24_AsStated ==
    p_op = "read" =>
       \A k \in 1..Len(p_log) :
          FrameFields(k) = [address |-> RequestAddress(k), len |-> p_log[k].len]

(***************************************************************************)
(* C24 amended: a read of size bytes from address issues requests one      *)
(* after the other with a_1 = address, a_(k+1) = a_k + l_k, every l_k      *)
(* PACKETSIZE except the last, which is what is left (1..PACKETSIZE); the  *)
(* frame of request k carries l_k and the low 16 bits of a_k (a_k itself   *)
(* when it is below 65536) and asks for an answer of 2 * (l_k + 3)         *)
(* characters; the bytes decoded from answer k are stored at output offset *)
(* a_k - address (the answer being the hex characters the device sends for *)
(* the address in the frame).  A transfer that fails ends the read with    *)
(* that status and no further request; a successful read has requested     *)
(* exactly size bytes, and size 0 returns Success with no request.         *)
(***************************************************************************)
C24_ReadRequests ==
    p_op = "read" =>
       /\ \A k \in 1..Len(p_log) :
             /\ p_log[k].address = RequestAddress(k)
             /\ p_log[k].len >= 1 /\ p_log[k].len <= PACKETSIZE
             /\ p_log[k].len = (IF p_loc.size - (k - 1) * PACKETSIZE > PACKETSIZE
                                THEN PACKETSIZE
                                ELSE p_loc.size - (k - 1) * PACKETSIZE)
             /\ p_log[k].asize = 2 * (p_log[k].len + 3)
             /\ FrameFields(k) = [address |-> RequestAddress(k) % 65536,
                                  len |-> p_log[k].len]
             /\ (k < Len(p_log) => p_log[k].rc = DC_STATUS_SUCCESS)
       /\ \A o \in 1..p_loc.nbytes :
             p_loc.data[o] = DeviceByte(p_loc.address0 + o - 1)
       /\ \A o \in (p_loc.nbytes + 1)..p_loc.size : p_loc.data[o] = StaleByte
       /\ (p_pc = "done" =>
             IF p_status = DC_STATUS_SUCCESS
             THEN /\ p_loc.nbytes = p_loc.size
                  /\ (p_loc.size = 0 => p_log = <<>>)
                  /\ \A k \in 1..Len(p_log) : p_log[k].rc = DC_STATUS_SUCCESS
             ELSE /\ p_log # <<>>
                  /\ p_status = p_log[Len(p_log)].rc)
       /\ (p_pc = "loop" =>
             /\ p_loc.nbytes = (IF Len(p_log) * PACKETSIZE > p_loc.size
                                THEN p_loc.size ELSE Len(p_log) * PACKETSIZE)
             /\ p_loc.address = p_loc.address0 + p_loc.nbytes
             /\ \A k \in 1..Len(p_log) : p_log[k].rc = DC_STATUS_SUCCESS)

\* a read of 70 bytes from address 65500 returned Success after 3 requests,
\* the last of them for address 65564, which its frame carries as 28
C24_Witness ==
    /\ p_op = "read" /\ p_pc = "done" /\ p_status = DC_STATUS_SUCCESS
    /\ p_loc.address0 = 65500 /\ p_loc.size = 70
    /\ Len(p_log) = 3 /\ p_log[3].len = 6
    /\ FrameFields(3) = [address |-> 28, len |-> 6]

(***************************************************************************)
(* C25: cressi_leonardo_device_dump writes its command once, after the     *)
(* buffer was resized, and never again; it reads the 7-byte header next    *)
(* and reads image bytes only if that header is the expected one (another  *)
(* header returns Protocol at once); every image read asks for the larger  *)
(* of the minimum packet and the bytes available, cut to the bytes still   *)
(* missing, so it asks for at least 1 byte and the reads add up to the     *)
(* image size; the 4-character trailer is read after the last of them and  *)
(* the call returns Protocol when the checksum converted from the trailer  *)
(* differs from the checksum of the image, Success when it is the same.    *)
(***************************************************************************)
NotMark(e) == e.call # "cancel"
\* the calls of the operation in progress, without the marks of Cancel
DumpLog == SelectSeq(p_log, NotMark)
IsTrailer(e) == e.call = "read" /\ "trailer" \in DOMAIN e
\* the positions in DumpLog of the reads of image bytes
ImageReads == {k \in 4..Len(DumpLog) : DumpLog[k].call = "read" /\ ~IsTrailer(DumpLog[k])}
RECURSIVE ReceivedBefore(_)
\* the image bytes received by the reads before position k
ReceivedBefore(k) ==
    IF k <= 4 THEN 0
    ELSE ReceivedBefore(k - 1)
           + (IF (k - 1) \in ImageReads /\ DumpLog[k - 1].rc = DC_STATUS_SUCCESS
              THEN DumpLog[k - 1].len ELSE 0)
Larger(a, b) == IF a > b THEN a ELSE b
Smaller(a, b) == IF a < b THEN a ELSE b

C25_DumpSequence ==
    p_op = "cressi_dump" =>
      LET L == DumpLog
          n == Len(L)
      IN  /\ Cardinality({k \in 1..n : L[k].call = "write"}) <= 1
          /\ (n >= 2 => L[1] = PCall("dc_buffer_resize", DC_STATUS_SUCCESS)
                          /\ L[2].call = "write" /\ L[2].cmd = 123 /\ L[2].csize = 8)
          /\ (n >= 3 => L[2].rc = DC_STATUS_SUCCESS /\ L[3].call = "read" /\ L[3].len = 7)
          /\ (n >= 4 => L[3].rc = DC_STATUS_SUCCESS /\ L[3].expected)
          /\ (n = 3 /\ L[3].rc = DC_STATUS_SUCCESS /\ ~L[3].expected =>
                 p_pc = "done" /\ p_status = DC_STATUS_PROTOCOL)
          /\ \A k \in ImageReads :
                /\ L[k - 1].call = "get_available"
                /\ L[k].len = Smaller(Larger(MinPacket,
                                              IF L[k - 1].rc = DC_STATUS_SUCCESS
                                              THEN L[k - 1].available ELSE 0),
                                       SZ_MEMORY - ReceivedBefore(k))
                /\ L[k].len >= 1
                /\ (k < n => L[k].rc = DC_STATUS_SUCCESS)
          /\ \A k \in 1..n :
                IsTrailer(L[k]) =>
                   /\ k = n /\ L[k].len = 4 /\ ReceivedBefore(k) = SZ_MEMORY
                   /\ p_pc = "done"
                   /\ p_status = (IF L[k].rc # DC_STATUS_SUCCESS THEN L[k].rc
                                  ELSE IF TrailerCrc(L[k].trailer) # L[k].csum2
                                  THEN DC_STATUS_PROTOCOL ELSE DC_STATUS_SUCCESS)
          /\ (p_pc = "done" /\ p_status = DC_STATUS_SUCCESS =>
                 n >= 6 /\ IsTrailer(L[n]) /\ ReceivedBefore(n) = SZ_MEMORY)
          /\ (p_pc = "trailer" => ReceivedBefore(n + 1) = SZ_MEMORY)
          /\ (p_pc = "chunk" => ReceivedBefore(n + 1) < SZ_MEMORY)

\* the image came in three reads, the second one as long as the 40 bytes
\* available and the third cut to the single byte missing, and the trailer
\* 087E did not match the image checksum 8A00: Protocol, one command written
C25_Witness ==
    /\ p_op = "cressi_dump" /\ p_pc = "done" /\ p_status = DC_STATUS_PROTOCOL
    /\ Len(DumpLog) = 10
    /\ DumpLog[5].len = MinPacket /\ DumpLog[7].len = 40
    /\ DumpLog[9].len = SZ_MEMORY - MinPacket - 40 /\ DumpLog[9].len >= 1
    /\ DumpLog[10].trailer = <<48, 56, 55, 69>> /\ DumpLog[10].csum2 = 35328
    /\ Cardinality({k \in 1..10 : DumpLog[k].call = "write"}) = 1

(***************************************************************************)
(* C26: the handshake made by uwatec_smart_device_open succeeds if and     *)
(* only if both of its exchanges were written and read without error and   *)
(* were answered with the byte 1; the stage-2 command (5 bytes, 0x1C) is   *)
(* written only after the stage-1 command (1 byte, 0x1B) was answered with *)
(* 1; an exchange answered with another byte returns Protocol, and the     *)
(* error of a failed write or read is returned as it is.  When the         *)
(* handshake fails, open closes the transport, stores nothing to *out and  *)
(* returns the status of the handshake; when it succeeds, open returns     *)
(* Success with the device in *out.                                        *)
(***************************************************************************)
\* the exchange went through and was answered with the byte 1
Acknowledged(ex) ==
    ex.wr = DC_STATUS_SUCCESS /\ ex.rd = DC_STATUS_SUCCESS /\ ex.answer = 1
\* the status an exchange that was not acknowledged ends the handshake with
ExchangeFailure(ex) ==
    IF ex.wr # DC_STATUS_SUCCESS THEN ex.wr
    ELSE IF ex.rd # DC_STATUS_SUCCESS THEN ex.rd
    ELSE DC_STATUS_PROTOCOL
\* the positions in p_log of the commands written
CommandsWritten == {k \in DOMAIN p_log : p_log[k].call = "write"}
HandshakeOver ==
    p_op = "uwatec_open" /\ p_pc = "done" /\ p_loc.hs # <<>>

C26_Handshake ==
    p_op = "uwatec_open" =>
      LET hs == p_loc.hs
      IN  /\ Len(hs) <= 2 /\ Cardinality(CommandsWritten) = Len(hs)
          /\ \A k \in CommandsWritten :
                /\ \E j \in 1..(k - 1) : p_log[j] = PCall("dc_irda_open", DC_STATUS_SUCCESS)
                /\ <<p_log[k].cmd, p_log[k].csize>> \in {<<27, 1>>, <<28, 5>>}
                /\ (p_log[k].cmd = 28 =>
                       /\ Len(hs) = 2 /\ Acknowledged(hs[1])
                       /\ \E j \in 1..(k - 1) : p_log[j].call = "write" /\ p_log[j].cmd = 27)
          /\ (Len(hs) = 2 => Acknowledged(hs[1]))
          /\ (p_pc = "done" /\ p_status = DC_STATUS_SUCCESS <=>
                 Len(hs) = 2 /\ Acknowledged(hs[1]) /\ Acknowledged(hs[2]))
          /\ (p_out = "device" <=> p_pc = "done" /\ p_status = DC_STATUS_SUCCESS)
          /\ (HandshakeOver /\ ~Acknowledged(hs[Len(hs)]) =>
                 /\ p_status = ExchangeFailure(hs[Len(hs)])
                 /\ p_out # "device"
                 /\ Len(p_log) >= 4
                 /\ SubSeq(p_log, Len(p_log) - 3, Len(p_log))
                       = UwatecOpenCleanup(4, p_loc.dev)
                 /\ p_log[Len(p_log) - 3].call = "dc_iostream_close"
                 /\ p_log[Len(p_log) - 4].call \in {"write", "read"})

\* stage 1 was acknowledged and stage 2 answered with the byte 0: open
\* returned Protocol after closing the transport, *out still NULL
C26_Witness ==
    /\ HandshakeOver /\ p_status = DC_STATUS_PROTOCOL /\ p_out = "NULL"
    /\ Len(p_loc.hs) = 2 /\ Acknowledged(p_loc.hs[1])
    /\ p_loc.hs[2] = [wr |-> DC_STATUS_SUCCESS, rd |-> DC_STATUS_SUCCESS, answer |-> 0]
    /\ Cardinality(CommandsWritten) = 2
    /\ p_log[Len(p_log) - 3].call = "dc_iostream_close"

(***************************************************************************)
(* C27 as stated: uwatec_smart_device_dump writes its commands in the      *)
(* order model (0x10), serial (0x14), device clock (0x1A), data length     *)
(* (0xC6) and writes the data command (0xC4) only when the length reported *)
(* is not 0: a length of 0 returns Success with no further I/O.  For every *)
(* 32-bit length, a total other than length + 4 returns Protocol before    *)
(* any byte of the data is read, and otherwise every read of the data asks *)
(* for max(32, bytes available) bytes cut to the bytes still missing, so   *)
(* that exactly length bytes are read when the dump returns Success.       *)
(***************************************************************************)
UwatecCommands == <<16, 20, 26, 198, 196>>
\* the first bytes of the commands written so far, in order
RECURSIVE CommandsOf(_)
CommandsOf(log) ==
    IF log = <<>> THEN <<>>
    ELSE LET rest == CommandsOf(SubSeq(log, 1, Len(log) - 1))
             e == log[Len(log)]
         IN  IF e.call = "write" THEN Append(rest, e.cmd) ELSE rest
\* the reads of the data loop logged so far
DataReads == {k \in DOMAIN p_log : k > 1 /\ p_log[k].call = "read"
                                        /\ p_log[k - 1].call = "get_available"}
\* the dump goes through its exchanges in order and stops where it should
UwatecDumpOrder ==
    p_op = "uwatec_dump" =>
      LET cmds == CommandsOf(p_log)
      IN  /\ Len(cmds) <= 5 /\ cmds = SubSeq(UwatecCommands, 1, Len(cmds))
          /\ (Len(cmds) = 5 => p_loc.length # 0)
          /\ (p_pc = "done" /\ p_loc.stage = 3 /\ Len(cmds) = 4
                /\ p_log[Len(p_log)].call = "read" /\ p_log[Len(p_log)].rc = DC_STATUS_SUCCESS
                => p_loc.length = 0 /\ p_status = DC_STATUS_SUCCESS)
          /\ (DataReads # {} => p_loc.total = p_loc.length + 4)
          /\ (p_pc = "done" /\ Len(cmds) = 5 /\ p_loc.total # p_loc.length + 4
                /\ p_log[Len(p_log)].rc = DC_STATUS_SUCCESS
                => p_status = DC_STATUS_PROTOCOL /\ DataReads = {})
\* a read of the data asks for no more than what is missing
UwatecChunkCut ==
    p_op = "uwatec_dump" /\ p_pc = "chunk" /\ Len(p_log') = Len(p_log) + 2
      /\ p_log'[Len(p_log')].call = "read"
      => LET asked == p_log'[Len(p_log')].len
             got == p_log'[Len(p_log') - 1]
             most == IF got.rc = DC_STATUS_SUCCESS /\ got.available > UMinPacket
                     THEN got.available ELSE UMinPacket
             missing == p_loc.length - p_loc.nbytes
         IN  asked = (IF ULt(missing, most) THEN missing ELSE most)

C27_AsStated ==
    /\ [](UwatecDumpOrder)
    /\ [][UwatecChunkCut]_vars
    /\ [](p_op = "uwatec_dump" /\ p_pc = "done" /\ p_status = DC_STATUS_SUCCESS
            /\ p_loc.length # 0 => p_loc.nbytes = p_loc.length)

\* the parts of C27 that hold for every length: the order of the exchanges,
\* the return on a length of 0 and on a total that is not length + 4
C27_OrderAndTotal == UwatecDumpOrder

\* a read of the data that asks for more than what is missing
C27_Overrun ==
    /\ p_op = "uwatec_dump" /\ p_pc = "chunk" /\ p_loc.length = -16
    /\ p_loc.nbytes = 0 /\ p_loc.chunks = 1
    /\ p_log[Len(p_log)] = PRead(DC_STATUS_SUCCESS, 32)

(***************************************************************************)
(* C30 as stated: uwatec_smart_extract_dives reads only bytes of the       *)
(* buffer.  In every iteration of the backward search the 4 bytes compared *)
(* with the marker lie below size, and where the marker is found so do the *)
(* 4 bytes of the length field at marker + 4 and, when the dive is passed  *)
(* to the consumer, the 4 bytes of the fingerprint at marker + 8.          *)
(***************************************************************************)
\* the iteration about to run finds the marker
UMarkerFound == Bytes(data, current - 1, 4) = UHeader
\* the indices the iteration about to run reads: the bytes compared with
\* the marker and, when they are equal, the length field
USearchReads ==
    ((current - 1)..(current + 2))
      \cup (IF UMarkerFound THEN (current + 3)..(current + 6) ELSE {})
\* the indices of the fingerprint passed with the dive at offset off
UFingerprintSlice(off) == (off + 8)..(off + 11)

C30_AsStated ==
    [][extractor = "uwatec" /\ pc = "search" =>
         /\ \A a \in USearchReads : a < size
         /\ (calls' # calls =>
               \A a \in UFingerprintSlice(calls'[Len(calls')].off) : a < size)]_vars

\* a buffer that ends 5 bytes after the start of a marker: the search found
\* the marker and took the length from the byte left and what follows it
C30_TailMarker ==
    /\ extractor = "uwatec" /\ pc = "done" /\ size = 5 /\ current = 0
    /\ Bytes(data, 0, 4) = UHeader /\ status = DC_STATUS_DATAFORMAT

(***************************************************************************)
(* C28 as stated: every logbook slot the backward walk of the cressi       *)
(* extractor reads, and so every slot it passes to the consumer, is one of *)
(* the count slots the scan accepted: its index is below count, and the    *)
(* walk never reads a slot at or after the one that ended the scan.        *)
(***************************************************************************)
C28_AsStated ==
    extractor = "cressi" =>
      /\ (pc = "walk" => WalkIdx(latest, i) < count)
      /\ \A k \in DOMAIN calls : calls[k].idx < count

\* a slot behind the one that ended the scan was passed to the consumer
C28_BeyondScan ==
    /\ extractor = "cressi" /\ pc = "done"
    /\ \E k \in DOMAIN calls : calls[k].idx > count

(***************************************************************************)
(* C29 as stated: for every dive whose profile the cressi extractor        *)
(* copies, the profile length, circular distance(header, footer) - 2 in    *)
(* unsigned 32-bit arithmetic, has not wrapped: it is at most the size of  *)
(* the profile ring, so the copy stays inside the scratch buffer and the   *)
(* image, and the length passed to the consumer is at most slot size plus  *)
(* ring size.                                                              *)
(***************************************************************************)
\* the walk is about to copy the profile of the slot it visits
WalkCopies ==
    /\ WalkAtAcceptedSlot
    /\ Fits(remaining, WalkLength)
    /\ ~EchoMismatch(data, SlotHeader(Behind(i)), SlotFooter(Behind(i)))

C29_AsStated ==
    extractor = "cressi" =>
      /\ (WalkCopies => WalkLength \in 0..(RB_PROFILE_END - RB_PROFILE_BEGIN))
      /\ \A k \in DOMAIN calls :
            calls[k].len <= RB_LOGBOOK_SIZE + (RB_PROFILE_END - RB_PROFILE_BEGIN)

\* the copy was made with the length 0xFFFFFFFE
C29_WrappedCopy ==
    extractor = "cressi" /\ pc = "done" /\ status = "CRASH" /\ i = 0

(***************************************************************************)
(* C31 as stated: every record uwatec_smart_extract_dives passes to the    *)
(* consumer lies inside the image and ends where the record passed before  *)
(* it starts, or earlier: its offset plus its length, a 32-bit unsigned    *)
(* value, is at most the offset of the record passed before it (size for   *)
(* the first one), whatever the stored length field holds, and the offsets *)
(* of the records passed go strictly down.                                 *)
(***************************************************************************)
\* where the record passed before call k starts (size for the first call)
UPassedBefore(k) == IF k = 1 THEN size ELSE calls[k - 1].off

C31_AsStated ==
    extractor = "uwatec" =>
      \A k \in DOMAIN calls :
         /\ calls[k].off < UPassedBefore(k)
         /\ calls[k].len >= 0                 \* below 2^31 as an unsigned value
         /\ calls[k].off + calls[k].len <= UPassedBefore(k)

\* a record of a complete buffer was passed with the length 0xFFFFFFFC
C31_WrappedRecord ==
    /\ extractor = "uwatec" /\ image.cut = 0 /\ size = 24
    /\ calls # <<>> /\ calls[1] = [off |-> 12, len |-> -4, inside |-> TRUE]

(***************************************************************************)
(* C32 as stated: when uwatec_smart_device_open returns, with Success or   *)
(* with an error, the IrDA iterator it created has been freed once and     *)
(* every device descriptor the enumeration handed out has been freed once; *)
(* after Success the device object and its open transport are all that is  *)
(* still held, after an error nothing is.                                  *)
(***************************************************************************)
\* the positions in p_log of the successful calls named call
Succeeded(call) ==
    {k \in DOMAIN p_log : p_log[k].call = call /\ p_log[k].rc = DC_STATUS_SUCCESS}
\* the descriptors the enumeration handed out
Enumerated == {p_log[k].id : k \in Succeeded("dc_iterator_next")}
\* the positions where the descriptor id was freed
FreesOf(id) == {k \in Succeeded("dc_irda_device_free") : p_log[k].id = id}
UwatecOpenReturned == p_op = "uwatec_open" /\ p_pc = "done"

\* the iterator and the descriptors are released
IrdaReleased ==
    /\ Cardinality(Succeeded("dc_iterator_free"))
          = Cardinality(Succeeded("dc_irda_iterator_new"))
    /\ \A id \in Enumerated : Cardinality(FreesOf(id)) = 1
\* the device object and the transport are released after an error and kept
\* after Success
DeviceReleased ==
    IF p_status = DC_STATUS_SUCCESS
    THEN /\ Succeeded("dc_device_deallocate") = {}
         /\ Succeeded("dc_iostream_close") = {}
    ELSE /\ Cardinality(Succeeded("dc_device_deallocate"))
               = Cardinality(Succeeded("dc_device_allocate"))
         /\ Cardinality(Succeeded("dc_iostream_close"))
               = Cardinality(Succeeded("dc_irda_open"))

C32_AsStated ==
    UwatecOpenReturned => IrdaReleased /\ DeviceReleased

\* the part of C32 that holds: every return with an error has released all
\* that was acquired, and Success keeps the device and its transport
C32_FailureTeardown ==
    UwatecOpenReturned =>
      /\ DeviceReleased
      /\ (p_status # DC_STATUS_SUCCESS => IrdaReleased)

\* open returned Success after the enumeration passed over one device:
\* the iterator and the descriptor of the device opened were never freed
C32_Leak ==
    /\ UwatecOpenReturned /\ p_status = DC_STATUS_SUCCESS /\ p_out = "device"
    /\ Enumerated = {1, 2} /\ FreesOf(1) # {} /\ FreesOf(2) = {}
    /\ Succeeded("dc_iterator_free") = {}

====
